---- MODULE Spec2Model ----
(***************************************************************************)
(* Ingestion and hybrid-retrieval core of the chat-history RAG service:    *)
(* windowing of messages into chunks (lib/rag.ts), the chunk hash, the     *)
(* two-phase ingest against the chat_chunks table, the batch embedding     *)
(* client (lib/openai.ts) and the hybrid search SQL function.              *)
(*                                                                         *)
(* Strings are sequences of UTF-16 code units, as String.length,           *)
(* charCodeAt and substring see them.                                      *)
(***************************************************************************)
EXTENDS Integers, Sequences, FiniteSets, TLC

VARIABLES
    \* windowMessagesIntoChunks
    wMsgs,      \* the messages argument
    wParams,    \* [target, min, max]: targetChars, minChars, maxChars
    wPos,       \* number of messages the for loop has consumed
    current,    \* the accumulator
    chunks,     \* the chunks array
    wpc,        \* "loop" | "done"
    \* generateEmbeddingsBatch (stand-alone call)
    bat,
    \* chat_chunks table (row id = index) and the upsertChunksAndEmbed runs
    store,
    run,
    \* search_chat_chunks_hybrid
    srch,
    \* one request to the upload route
    up,
    \* one call of embedChatHistoryEntry or of checkForDuplicateMessage, with
    \* the chat_history and chat_embeddings tables
    ent,
    \* one call of getUserCorpusCoverage
    cov,
    \* one call of generateEmbedding
    gen,
    \* the chat view: the ChatArea component, its requests in flight and the
    \* chat_messages table
    chat

wvars == <<wMsgs, wParams, wPos, current, chunks, wpc>>
bvars == <<bat>>
ivars == <<store, run>>
svars == <<srch>>
uvars == <<up>>
evars == <<ent>>
cvars == <<cov>>
gvars == <<gen>>
hvars == <<chat>>
vars == <<wMsgs, wParams, wPos, current, chunks, wpc, bat, store, run, srch, up, ent, cov, gen, chat>>

\* null; a timestamp is a string (a sequence of code units), so is never <<>>
NULL == <<>>
T1 == <<49>>
T2 == <<50>>
T3 == <<51>>

\* the strings that are read as a date, by new Date() and by the store's
\* timestamp with time zone columns alike; any other string is read by neither
ValidDates == {T1, T2, T3}

(***************************************************************************)
(* Generic helpers                                                         *)
(***************************************************************************)
Min2(a, b) == IF a < b THEN a ELSE b

Range(s) == {s[i] : i \in 1..Len(s)}

\* Array.prototype.slice(from, to) with 0-based from, exclusive to
Slice(s, from, to) == SubSeq(s, from + 1, Min2(to, Len(s)))

RECURSIVE SeqsUpTo(_, _)
SeqsUpTo(S, n) ==
    IF n = 0 THEN {<<>>}
    ELSE LET shorter == SeqsUpTo(S, n - 1)
         IN  shorter \cup {Append(s, x) : s \in {t \in shorter : Len(t) = n - 1}, x \in S}

\* n copies of code unit c
Rep(c, n) == [i \in 1..n |-> c]

(***************************************************************************)
(* Strings of the windowing code                                           *)
(***************************************************************************)
WhiteSpace == {9, 10, 13, 32}

RECURSIVE TrimStart(_)
TrimStart(s) ==
    IF s # <<>> /\ Head(s) \in WhiteSpace THEN TrimStart(Tail(s)) ELSE s

RECURSIVE TrimEnd(_)
TrimEnd(s) ==
    IF s # <<>> /\ s[Len(s)] \in WhiteSpace THEN TrimEnd(SubSeq(s, 1, Len(s) - 1)) ELSE s

\* String.prototype.trim
Trim(s) == TrimEnd(TrimStart(s))

\* Canonicalize of a non-unicode /i regular expression: toUpperCase per code unit
Canon(c) ==
    CASE c \in 97..122 -> c - 32
      [] c = 240 -> 208
      [] c = 255 -> 376
      [] c = 339 -> 338
      [] OTHER -> c

CanonStr(s) == [i \in 1..Len(s) |-> Canon(s[i])]

\* the alternatives of /^(ok|k|lol|haha|thx|thanks|...|...)$/i; the last two
\* are the code units of the two non-ASCII alternatives as the file holds them
TrivialWords ==
    { <<111, 107>>, <<107>>, <<108, 111, 108>>, <<104, 97, 104, 97>>,
      <<116, 104, 120>>, <<116, 104, 97, 110, 107, 115>>,
      <<240, 376, 8216>>, <<240, 376, 8216, 338>> }

isTrivialFlipped(t) ==
    Len(Trim(t)) < 2 /\ CanonStr(Trim(t)) \in {CanonStr(w) : w \in TrivialWords}

isTrivial(t) ==
    Len(Trim(t)) < 2 \/ CanonStr(Trim(t)) \in {CanonStr(w) : w \in TrivialWords}

\* `${m.participant}: ${m.content}`
Line(m) == m.participant \o <<58, 32>> \o m.content

\* a Set in insertion order
SetAdd(s, x) == IF x \in Range(s) THEN s ELSE Append(s, x)

EmptyCurrent ==
    [content |-> <<>>, start |-> NULL, end |-> NULL,
     participants |-> <<>>, participantEmails |-> <<>>, count |-> 0]

\* pushCurrent without the reset of lines 330-337
pushCurrentNoReset(cur, chs) ==
    IF Len(Trim(cur.content)) = 0 THEN <<cur, chs>>
    ELSE <<cur, Append(chs, cur)>>

\* pushCurrent applied to accumulator cur and chunk list chs:
\* the pair <<accumulator, chunk list>> it leaves
pushCurrent(cur, chs) ==
    IF Len(Trim(cur.content)) = 0 THEN <<cur, chs>>
    ELSE <<EmptyCurrent, Append(chs, cur)>>

\* (current.content ? "\n" : "") + line
Addition(cur, m) == (IF cur.content # <<>> THEN <<10>> ELSE <<>>) \o Line(m)

\* the test with targetChars in the place of minChars
NeedsFlushTarget(cur, m, p) ==
    /\ Len(cur.content) + Len(Addition(cur, m)) > p.max
    /\ Len(cur.content) >= p.target

\* the test without its second half
NeedsFlushNoMin(cur, m, p) ==
    Len(cur.content) + Len(Addition(cur, m)) > p.max

\* the flush-before-append test, lines 347-350
NeedsFlush(cur, m, p) ==
    /\ Len(cur.content) + Len(Addition(cur, m)) > p.max
    /\ Len(cur.content) >= p.min

\* a fold that sets the start time whenever none is set yet
FoldStartIfUnset(cur, m, add) ==
    [content |-> cur.content \o add,
     start |-> IF cur.start = NULL THEN m.timestamp ELSE cur.start,
     end |-> m.timestamp,
     participants |-> SetAdd(cur.participants, m.participant),
     participantEmails |->
        IF m.email # <<>> THEN SetAdd(cur.participantEmails, m.email)
        ELSE cur.participantEmails,
     count |-> cur.count + 1]

\* lines 353-360: fold message m into accumulator cur
Fold(cur, m, add) ==
    [content |-> cur.content \o add,
     start |-> IF Len(cur.content) = 0 THEN m.timestamp ELSE cur.start,
     end |-> m.timestamp,
     participants |-> SetAdd(cur.participants, m.participant),
     participantEmails |->
        IF m.email # <<>> THEN SetAdd(cur.participantEmails, m.email)
        ELSE cur.participantEmails,
     count |-> cur.count + 1]

\* the iteration with the count taken before the test of line 344
WindowIterCountAll(cur, chs, m, p) ==
    IF m.content = <<>> \/ isTrivial(m.content) THEN <<[cur EXCEPT !.count = @ + 1], chs>>
    ELSE LET add == Addition(cur, m)
             a == IF NeedsFlush(cur, m, p) THEN pushCurrent(cur, chs) ELSE <<cur, chs>>
             folded == Fold(a[1], m, add)
         IN  IF Len(folded.content) >= p.target
             THEN pushCurrent(folded, a[2])
             ELSE <<folded, a[2]>>

\* one iteration of the for loop on message m: <<accumulator, chunk list>>
WindowIter(cur, chs, m, p) ==
    IF m.content = <<>> \/ isTrivial(m.content) THEN <<cur, chs>>
    ELSE LET add == Addition(cur, m)
             a == IF NeedsFlush(cur, m, p) THEN pushCurrent(cur, chs) ELSE <<cur, chs>>
             folded == Fold(a[1], m, add)
         IN  IF Len(folded.content) >= p.target
             THEN pushCurrent(folded, a[2])
             ELSE <<folded, a[2]>>

(***************************************************************************)
(* Inputs of the windowing runs                                            *)
(***************************************************************************)
MaxMsgs == 3

Msg(p, c, t, e) == [participant |-> p, content |-> c, timestamp |-> t, email |-> e]

\* "a" = <<97>>, "b" = <<98>>; contents "", "ok", " K ", "hi", "ok great",
\* 26 times "x", 9 times "y", and the thumbs-up sign U+1F44D
MsgPool ==
    { Msg(<<97>>, <<>>, T1, <<>>),
      Msg(<<97>>, <<111, 107>>, T1, <<>>),
      Msg(<<98>>, <<32, 75, 32>>, NULL, <<>>),
      Msg(<<97>>, <<104, 105>>, T1, <<97, 64>>),
      Msg(<<98>>, <<104, 105>>, NULL, <<>>),
      Msg(<<97>>, <<111, 107, 32, 103, 114, 101, 97, 116>>, T2, <<97, 64>>),
      Msg(<<98>>, Rep(120, 26), T3, <<98, 64>>),
      Msg(<<97>>, Rep(121, 9), T2, <<>>),
      Msg(<<98>>, <<55357, 56397>>, T3, <<>>) }

\* the defaults 1000/400/1600 scaled by 1/50, a tight triple, and a triple
\* whose target lies above max
ParamPool ==
    { [target |-> 20, min |-> 8, max |-> 32],
      [target |-> 12, min |-> 5, max |-> 12],
      [target |-> 40, min |-> 8, max |-> 32],
      [target |-> 0, min |-> 0, max |-> 0] }

WInit ==
    /\ wMsgs \in SeqsUpTo(MsgPool, MaxMsgs)
    /\ wParams \in ParamPool
    /\ wPos = 0
    /\ current = EmptyCurrent
    /\ chunks = <<>>
    /\ wpc = "loop"

WIdle ==
    /\ wMsgs = <<>>
    /\ wParams = [target |-> 20, min |-> 8, max |-> 32]
    /\ wPos = 0
    /\ current = EmptyCurrent
    /\ chunks = <<>>
    /\ wpc = "done"

\* one iteration of `for (const m of messages)`
WindowStep ==
    /\ wpc = "loop"
    /\ wPos < Len(wMsgs)
    /\ LET r == WindowIter(current, chunks, wMsgs[wPos + 1], wParams)
       IN  /\ current' = r[1]
           /\ chunks' = r[2]
    /\ wPos' = wPos + 1
    /\ UNCHANGED <<wMsgs, wParams, wpc, bvars, ivars, svars, uvars, evars, cvars, gvars, hvars>>

\* the pushCurrent after the loop; the result is chunks
WindowFinish ==
    /\ wpc = "loop"
    /\ wPos = Len(wMsgs)
    /\ LET r == pushCurrent(current, chunks)
       IN  /\ current' = r[1]
           /\ chunks' = r[2]
    /\ wpc' = "done"
    /\ UNCHANGED <<wMsgs, wParams, wPos, bvars, ivars, svars, uvars, evars, cvars, gvars, hvars>>

(***************************************************************************)
(* Embedding client, lib/openai.ts                                         *)
(*                                                                         *)
(* A text is [id, len]: the first len code units of the caller's string    *)
(* id.  The provider answers a request with one vector per input, in input *)
(* order; the vector is a function of the submitted text.                  *)
(***************************************************************************)
batchSize == 64
MaxAttempts == 6
MaxEmbedChars == 8000
PaceDelay == 200

Text(id, len) == [id |-> id, len |-> len]

\* the text as it is
TruncateNone(t) == t

\* t.length > 8000 ? t.substring(0, 8000) : t
Truncate(t) == IF t.len > MaxEmbedChars THEN Text(t.id, MaxEmbedChars) ELSE t

\* the provider's vector for a submitted text
Emb(t) == <<"vec", t.id, t.len>>


\* provider failures: a rate limit (HTTP 429), a quota/billing refusal, a
\* network failure
ErrKinds == {"rate_limit", "quota", "network"}
NoErr == [kind |-> "none"]

\* Math.floor(Math.random() * 250): the extremes
JitterPool == {0, 249}

RECURSIVE Pow2(_)
Pow2(n) == IF n = 0 THEN 1 ELSE 2 * Pow2(n - 1)

\* the state of one generateEmbeddingsBatch call on entry: i, embeddings,
\* attempt, lastErr of the code, and what the provider has seen (calls:
\* submissions so far, subs: submissions of the current group, last: the
\* last request sent)
BatStart(texts) ==
    [pc |-> IF Len(texts) = 0 THEN "returned" ELSE "attempt",
     texts |-> texts, i |-> 0, attempt |-> 0, embeddings |-> <<>>,
     lastErr |-> NoErr, calls |-> 0, subs |-> 0, okGroups |-> 0,
     delay |-> 0, last |-> <<>>]

\* texts.slice(i, i + batchSize).map(truncate)
BatSlice(b) ==
    LET sl == Slice(b.texts, b.i, b.i + batchSize)
    IN  [x \in 1..Len(sl) |-> Truncate(sl[x])]

\* lines 68-75 and 86-88: the submission succeeds, the vectors are pushed,
\* the pacing delay is slept and the for loop advances
BatOk(b) ==
    [b EXCEPT !.embeddings = @ \o [x \in 1..Len(BatSlice(b)) |-> Emb(BatSlice(b)[x])],
              !.lastErr = NoErr,
              !.calls = @ + 1, !.subs = 0, !.okGroups = @ + 1,
              !.last = BatSlice(b),
              !.delay = PaceDelay,
              !.i = @ + batchSize, !.attempt = 0,
              !.pc = IF b.i + batchSize < Len(b.texts) THEN "attempt" ELSE "returned"]

\* a failure that arrives after the vectors of the response were pushed
BatFailPush(b, kind, jitter) ==
    [b EXCEPT !.embeddings = @ \o [x \in 1..Len(BatSlice(b)) |-> Emb(BatSlice(b)[x])],
              !.lastErr = [kind |-> kind, group |-> b.i, attempt |-> b.attempt],
              !.calls = @ + 1, !.subs = @ + 1,
              !.last = BatSlice(b),
              !.delay = 1000 * Pow2(b.attempt) + jitter,
              !.attempt = @ + 1,
              !.pc = IF b.attempt + 1 < MaxAttempts THEN "attempt" ELSE "thrown"]

\* a loop bounded by attempt <= 6
BatFailLong(b, kind, jitter) ==
    [b EXCEPT !.lastErr = [kind |-> kind, group |-> b.i, attempt |-> b.attempt],
              !.calls = @ + 1, !.subs = @ + 1,
              !.last = BatSlice(b),
              !.delay = 1000 * Pow2(b.attempt) + jitter,
              !.attempt = @ + 1,
              !.pc = IF b.attempt + 1 <= MaxAttempts THEN "attempt" ELSE "thrown"]

\* lines 76-85: the submission fails with an error of the given kind; it is
\* kept in lastErr, the backoff delay is slept, and after the last attempt
\* lastErr is thrown
BatFail(b, kind, jitter) ==
    [b EXCEPT !.lastErr = [kind |-> kind, group |-> b.i, attempt |-> b.attempt],
              !.calls = @ + 1, !.subs = @ + 1,
              !.last = BatSlice(b),
              !.delay = 1000 * Pow2(b.attempt) + jitter,
              !.attempt = @ + 1,
              !.pc = IF b.attempt + 1 < MaxAttempts THEN "attempt" ELSE "thrown"]

(***************************************************************************)
(* Stand-alone calls of generateEmbeddingsBatch                            *)
(***************************************************************************)
MaxTexts == 130

\* the lengths of the caller's strings: short, at the limit, over the limit
LenOf(pat, k) ==
    CASE pat = 1 -> 40
      [] pat = 2 -> IF k % 2 = 0 THEN MaxEmbedChars + 1 ELSE MaxEmbedChars
      [] OTHER -> IF k % 64 = 1 THEN 2 * MaxEmbedChars ELSE 7

BInit ==
    \E n \in 0..MaxTexts, pat \in 1..3 :
        bat = BatStart([k \in 1..n |-> Text(k, LenOf(pat, k))])

BIdle == bat = BatStart(<<>>)

BatchOk ==
    /\ bat.pc = "attempt"
    /\ bat' = BatOk(bat)
    /\ UNCHANGED <<wvars, ivars, svars, uvars, evars, cvars, gvars, hvars>>

BatchFail ==
    /\ bat.pc = "attempt"
    /\ \E kind \in ErrKinds, jitter \in JitterPool : bat' = BatFail(bat, kind, jitter)
    /\ UNCHANGED <<wvars, ivars, svars, uvars, evars, cvars, gvars, hvars>>

(***************************************************************************)
(* Chunk hash, lib/rag.ts 281-290 and 398-400                              *)
(*                                                                         *)
(* The 32-bit accumulator is kept as two 16-bit halves <<hi, lo>>.         *)
(***************************************************************************)
Half == 65536

\* hash = (hash << 5) - hash + c; hash |= 0   (31 * hash + c modulo 2^32)
HashStep(h, c) ==
    LET lo == 31 * h[2] + c
        hi == 31 * h[1] + (lo \div Half)
    IN  <<hi % Half, lo % Half>>

\* hash |= 0 leaves a value of 32 bits
Is32(h) == h[1] \in 0..(Half - 1) /\ h[2] \in 0..(Half - 1)

RECURSIVE HashLoop(_, _, _, _)
\* the for loop over input[a..b] in order, begun with accumulator h.  The
\* range is folded half by half, and the accumulator is computed before the
\* second half begins, so that long inputs need no deep recursion
HashLoop(h, input, a, b) ==
    IF a > b THEN h
    ELSE IF a = b THEN HashStep(h, input[a])
    ELSE LET mid == (a + b) \div 2
             left == HashLoop(h, input, a, mid)
         IN  IF Is32(left) THEN HashLoop(left, input, mid + 1, b) ELSE left

\* Math.abs of the signed 32-bit value whose bits are <<hi, lo>>
Abs32(h) ==
    IF h[1] < Half \div 2 THEN h
    ELSE IF h[2] = 0 THEN <<Half - h[1], 0>>
    ELSE <<Half - 1 - h[1], Half - h[2]>>

\* the digits of `h${Math.abs(hash)}`, as the number's two halves
sha256(input) == Abs32(HashLoop(<<0, 0>>, input, 1, Len(input)))

RECURSIVE Join(_, _)
Join(strs, sep) ==
    IF strs = <<>> THEN <<>>
    ELSE IF Len(strs) = 1 THEN strs[1]
    ELSE strs[1] \o sep \o Join(Tail(strs), sep)

\* a timestamp inside a template literal: null prints as "null"
TimeStr(t) == IF t = NULL THEN <<110, 117, 108, 108>> ELSE t

\* `${c.participants.join(",")}|${c.start}|${c.end}|${c.content}`
HashInput(c) ==
    Join(c.participants, <<44>>) \o <<124>> \o TimeStr(c.start) \o <<124>>
        \o TimeStr(c.end) \o <<124>> \o c.content

\* a hash that leaves the content out
ChunkHashNoContent(c) ==
    sha256(Join(c.participants, <<44>>) \o <<124>> \o TimeStr(c.start) \o <<124>>
        \o TimeStr(c.end))

ChunkHash(c) == sha256(HashInput(c))

(***************************************************************************)
(* chat_chunks and upsertChunksAndEmbed, lib/rag.ts 377-463                *)
(*                                                                         *)
(* store is the table in id order: row id = its index.  The batch and page *)
(* sizes are scaled down (400 -> 2, 1000 -> 3, 200 -> 2) so that lists of  *)
(* a few chunks make several upsert batches, pages and update groups.      *)
(***************************************************************************)
insertBatchSize == 2
pageSize == 3
updateBatchSize == 2

Owners == {"u1", "u2"}
RunIds == {1, 2}
Other(r) == 3 - r

Chunk(c, s, e) ==
    [content |-> c, start |-> s, end |-> e, participants |-> <<<<97>>>>,
     participantEmails |-> <<>>, count |-> 1]

\* contents "Aa", "BB" (equal hash), "Cc", "Dd", "Ee"
cA == Chunk(<<65, 97>>, NULL, NULL)
cB == Chunk(<<66, 66>>, NULL, NULL)
cC == Chunk(<<67, 99>>, T1, T2)
cD == Chunk(<<68, 100>>, T2, NULL)
cE == Chunk(<<69, 101>>, NULL, T3)

ListPool ==
    { <<>>, <<cA>>, <<cB>>, <<cA, cB>>, <<cA, cC, cB>>, <<cA, cC, cD, cE>> }

\* the originalFilename argument, "f"
FileName == <<102>>

\* lines 392-402 and 408-418: the row sent for a chunk
Payload(c, userId) ==
    [user_id |-> userId, chunk_hash |-> ChunkHash(c),
     participants |-> c.participants,
     participants_emails |-> c.participantEmails,
     content |-> c.content, start_time |-> c.start, end_time |-> c.end,
     message_count |-> c.count, original_filename |-> FileName]

HashIds(st, h) == {id \in 1..Len(st) : st[id].chunk_hash = h}

\* ON CONFLICT (chunk_hash) DO UPDATE that also sends embedding: null
MergeRowResetEmbedding(st, p) ==
    IF HashIds(st, p.chunk_hash) = {}
    THEN Append(st, p @@ [id |-> Len(st) + 1, embedding |-> NULL])
    ELSE LET id == CHOOSE x \in HashIds(st, p.chunk_hash) : TRUE
         IN  [st EXCEPT ![id] = p @@ [id |-> id, embedding |-> NULL]]

\* INSERT ... ON CONFLICT (chunk_hash) DO UPDATE SET <every column sent>:
\* what .upsert(slice, { onConflict: "chunk_hash" }) does with one row.  A new
\* row gets the next id and no embedding; a row whose hash is stored takes
\* over the columns sent and keeps id and embedding
MergeRow(st, p) ==
    IF HashIds(st, p.chunk_hash) = {}
    THEN Append(st, p @@ [id |-> Len(st) + 1, embedding |-> NULL])
    ELSE LET id == CHOOSE x \in HashIds(st, p.chunk_hash) : TRUE
         IN  [st EXCEPT ![id] = p @@ [id |-> id, embedding |-> st[id].embedding]]

RECURSIVE MergeAll(_, _)
MergeAll(st, slice) ==
    IF slice = <<>> THEN st ELSE MergeAll(MergeRow(st, Head(slice)), Tail(slice))

\* two rows of one statement with the same conflict key: PostgreSQL refuses
\* the statement (ON CONFLICT DO UPDATE cannot affect a row a second time)
HasDupHash(slice) ==
    \E a, b \in 1..Len(slice) : a < b /\ slice[a].chunk_hash = slice[b].chunk_hash

\* start_time and end_time are timestamp with time zone (part_001 98-99): a
\* statement with a value that is not a date is refused
TimesValid(slice) ==
    \A a \in 1..Len(slice) :
        /\ slice[a].start_time \in ValidDates \cup {NULL}
        /\ slice[a].end_time \in ValidDates \cup {NULL}

\* a row of the statement meets a stored row of another user
ForeignConflict(st, slice, userId) ==
    \E a \in 1..Len(slice) : \E id \in HashIds(st, slice[a].chunk_hash) :
        st[id].user_id # userId

IdleRun ==
    [pc |-> "idle", owner |-> "u1", rows |-> <<>>, i |-> 0, inserted |-> 0,
     embedded |-> 0, page |-> <<>>, bat |-> BatStart(<<>>), wi |-> 0, k |-> 0,
     err |-> "none",
     \* what the run has done, for the claims: rows it created, whether it
     \* repeats a completed run, whether no other run was active since it
     \* began, the table when it began, the ids it wrote, the pages it selected
     created |-> 0, rerun |-> FALSE, alone |-> FALSE, snap |-> <<>>,
     written |-> {}, pages |-> 0]

IInit ==
    /\ store = <<>>
    /\ run = [r \in RunIds |-> IdleRun]

IIdle == IInit

Active(rn) == rn.pc \in {"upsert", "select", "embed", "write"}

\* the slice of the current upsert batch, lines 408-418
UpsertSlice(rn) ==
    LET sl == Slice(rn.rows, rn.i, rn.i + insertBatchSize)
    IN  [x \in 1..Len(sl) |-> Payload(sl[x], rn.owner)]

\* a call of upsertChunksAndEmbed(userId, chunks) begins
StartRun(r) ==
    /\ run[r].pc = "idle"
    /\ r = 2 => run[1].pc # "idle"
    /\ \E owner \in (IF r = 1 THEN {"u1"} ELSE Owners), list \in ListPool :
         run' = [run EXCEPT
            ![r] = [IdleRun EXCEPT
                !.pc = IF Len(list) = 0 THEN "select" ELSE "upsert",
                !.owner = owner, !.rows = list,
                !.alone = ~Active(run[Other(r)]),
                !.rerun = /\ run[Other(r)].pc = "done"
                          /\ run[Other(r)].owner = owner
                          /\ run[Other(r)].rows = list,
                !.snap = store],
            ![Other(r)] = [@ EXCEPT !.alone = FALSE]]
    /\ UNCHANGED <<store, wvars, bvars, svars, uvars, evars, cvars, gvars, hvars>>

Fail(rn, e) == [rn EXCEPT !.pc = "failed", !.err = e]

\* the upsert loop ended at its first batch
UpsertOkOneBatch(r) ==
    /\ run[r].pc = "upsert"
    /\ LET rn == run[r]
           slice == UpsertSlice(rn)
           st == MergeAll(store, slice)
       IN  /\ ~HasDupHash(slice)
           /\ TimesValid(slice)
           /\ store' = st
           /\ run' = [run EXCEPT ![r] = [rn EXCEPT
                  !.inserted = @ + Len(slice),
                  !.created = @ + (Len(st) - Len(store)),
                  !.pc = "select"]]
    /\ UNCHANGED <<wvars, bvars, svars, uvars, evars, cvars, gvars, hvars>>

\* lines 419-424, the statement succeeds
UpsertOk(r) ==
    /\ run[r].pc = "upsert"
    /\ LET rn == run[r]
           slice == UpsertSlice(rn)
           st == MergeAll(store, slice)
       IN  /\ ~HasDupHash(slice)
           /\ TimesValid(slice)
           /\ store' = st
           /\ run' = [run EXCEPT ![r] = [rn EXCEPT
                  !.inserted = @ + Len(slice),
                  !.created = @ + (Len(st) - Len(store)),
                  !.i = @ + insertBatchSize,
                  !.pc = IF rn.i + insertBatchSize < Len(rn.rows) THEN "upsert" ELSE "select"]]
    /\ UNCHANGED <<wvars, bvars, svars, uvars, evars, cvars, gvars, hvars>>

\* line 423: the statement fails and the error is thrown.  It fails whenever
\* two of its rows share a hash or a time is not a date; it may fail when row
\* level security (enabled on the table, part_001 line 122) denies the update
\* of another user's row; and it may fail for reasons of the store's own
UpsertError(r) ==
    /\ run[r].pc = "upsert"
    /\ LET rn == run[r]
           slice == UpsertSlice(rn)
       IN  \E e \in {"conflict", "rls", "store", "type"} :
             /\ e = "conflict" => HasDupHash(slice)
             /\ e = "type" => ~TimesValid(slice)
             /\ e = "rls" => ~HasDupHash(slice) /\ ForeignConflict(store, slice, rn.owner)
             /\ run' = [run EXCEPT ![r] = Fail(rn, e)]
    /\ UNCHANGED <<store, wvars, bvars, svars, uvars, evars, cvars, gvars, hvars>>

\* the select without .is("embedding", null)
MissingAll(st, userId) ==
    {id \in 1..Len(st) : st[id].user_id = userId}

\* the rows the page select can see
Missing(st, userId) ==
    {id \in 1..Len(st) : st[id].user_id = userId /\ st[id].embedding = NULL}

RECURSIVE SortedSeq(_)
\* the rows of a page in id order; ids and contents stay paired whatever the
\* order the store returns them in
SortedSeq(S) ==
    IF S = {} THEN <<>>
    ELSE LET m == CHOOSE x \in S : \A y \in S : x <= y
         IN  <<m>> \o SortedSeq(S \ {m})

\* lines 431-439: up to pageSize of the owner's rows without embedding
\* (the select has no ORDER BY: any such rows)
SelectOk(r) ==
    /\ run[r].pc = "select"
    /\ LET rn == run[r]
           miss == Missing(store, rn.owner)
           n == Min2(pageSize, Cardinality(miss))
       IN  \E ids \in {S \in SUBSET miss : Cardinality(S) = n} :
             LET srt == SortedSeq(ids)
                 page == [x \in 1..Len(srt) |-> [id |-> srt[x], content |-> store[srt[x]].content]]
             IN  run' = [run EXCEPT ![r] =
                    IF n = 0 THEN [rn EXCEPT !.pc = "done", !.page = <<>>]
                    ELSE [rn EXCEPT !.pc = "embed", !.page = page,
                            !.pages = @ + 1,
                            !.bat = BatStart([x \in 1..Len(page) |-> Text(page[x].content, Len(page[x].content))])]]
    /\ UNCHANGED <<store, wvars, bvars, svars, uvars, evars, cvars, gvars, hvars>>

\* line 438
SelectError(r) ==
    /\ run[r].pc = "select"
    /\ run' = [run EXCEPT ![r] = Fail(run[r], "store")]
    /\ UNCHANGED <<store, wvars, bvars, svars, uvars, evars, cvars, gvars, hvars>>

\* a caller that swallows the error of a page and goes on to the next select
AfterEmbedSkipPage(rn, b) ==
    IF b.pc = "thrown" THEN [rn EXCEPT !.bat = b, !.pc = "select"]
    ELSE IF b.pc = "returned" THEN [rn EXCEPT !.bat = b, !.pc = "write", !.wi = 0, !.k = 0]
    ELSE [rn EXCEPT !.bat = b]

\* lines 441-443: the run after a step of its generateEmbeddingsBatch call;
\* what the call throws is not caught
AfterEmbed(rn, b) ==
    IF b.pc = "thrown" THEN [Fail(rn, b.lastErr.kind) EXCEPT !.bat = b]
    ELSE IF b.pc = "returned" THEN [rn EXCEPT !.bat = b, !.pc = "write", !.wi = 0, !.k = 0]
    ELSE [rn EXCEPT !.bat = b]

RECURSIVE BatAllOk(_)
\* the call when every submission succeeds at once
BatAllOk(b) == IF b.pc = "attempt" THEN BatAllOk(BatOk(b)) ELSE b

RECURSIVE BatExhaust(_)
\* the call when every submission of its first group fails
BatExhaust(b) == IF b.pc = "attempt" THEN BatExhaust(BatFail(b, "rate_limit", 0)) ELSE b

\* the call is one step of the run: it touches nothing but the provider.  A
\* call that succeeds after failed attempts returns the same vectors
EmbedOk(r) ==
    /\ run[r].pc = "embed"
    /\ run' = [run EXCEPT ![r] = AfterEmbed(run[r], BatAllOk(run[r].bat))]
    /\ UNCHANGED <<store, wvars, bvars, svars, uvars, evars, cvars, gvars, hvars>>

\* the retry budget of the first group is used up
EmbedFail(r) ==
    /\ run[r].pc = "embed"
    /\ run' = [run EXCEPT ![r] = AfterEmbed(run[r], BatExhaust(run[r].bat))]
    /\ UNCHANGED <<store, wvars, bvars, svars, uvars, evars, cvars, gvars, hvars>>

\* the position in page of the row the update loops are at
WritePos(rn) == rn.wi + rn.k + 1

\* the end of the update group that starts at wi, lines 447-449
GroupLen(rn) == Len(Slice(rn.page, rn.wi, rn.wi + updateBatchSize))

\* the run with a single pass in the place of the for (;;) of line 430
AfterWriteOnePage(rn) ==
    IF rn.k + 1 < GroupLen(rn) THEN [rn EXCEPT !.k = @ + 1]
    ELSE [rn EXCEPT !.embedded = @ + GroupLen(rn),
                    !.k = 0, !.wi = @ + updateBatchSize,
                    !.pc = IF rn.wi + updateBatchSize < Len(rn.page) THEN "write" ELSE "done"]

\* the run after the update of one row succeeded, lines 451-459
AfterWrite(rn) ==
    IF rn.k + 1 < GroupLen(rn) THEN [rn EXCEPT !.k = @ + 1]
    ELSE [rn EXCEPT !.embedded = @ + GroupLen(rn),
                    !.k = 0, !.wi = @ + updateBatchSize,
                    !.pc = IF rn.wi + updateBatchSize < Len(rn.page) THEN "write" ELSE "select"]

\* an update that takes its vector at k of the whole result, not of the slice
WriteOkNoOffset(r) ==
    /\ run[r].pc = "write"
    /\ LET rn == run[r]
           pos == WritePos(rn)
           id == rn.page[pos].id
       IN  /\ store' = [store EXCEPT ![id].embedding = rn.bat.embeddings[rn.k + 1]]
           /\ run' = [run EXCEPT ![r] = [AfterWrite(rn) EXCEPT !.written = @ \cup {id}]]
    /\ UNCHANGED <<wvars, bvars, svars, uvars, evars, cvars, gvars, hvars>>

\* lines 452-455: update({ embedding: sliceEmb[k] }).eq("id", sliceIds[k])
WriteOk(r) ==
    /\ run[r].pc = "write"
    /\ LET rn == run[r]
           pos == WritePos(rn)
           id == rn.page[pos].id
       IN  /\ store' = [store EXCEPT ![id].embedding = rn.bat.embeddings[pos]]
           /\ run' = [run EXCEPT ![r] = [AfterWrite(rn) EXCEPT !.written = @ \cup {id}]]
    /\ UNCHANGED <<wvars, bvars, svars, uvars, evars, cvars, gvars, hvars>>

\* an update whose error is noted and whose row is passed over
WriteErrorSkipsRow(r) ==
    /\ run[r].pc = "write"
    /\ run' = [run EXCEPT ![r] = [AfterWrite(run[r]) EXCEPT !.err = "store"]]
    /\ UNCHANGED <<store, wvars, bvars, svars, uvars, evars, cvars, gvars, hvars>>

\* line 456
WriteError(r) ==
    /\ run[r].pc = "write"
    /\ run' = [run EXCEPT ![r] = Fail(run[r], "store")]
    /\ UNCHANGED <<store, wvars, bvars, svars, uvars, evars, cvars, gvars, hvars>>


(***************************************************************************)
(* hybridSearch, lib/rag.ts 465-478, and search_chat_chunks_hybrid         *)
(*                                                                         *)
(* Similarities are in thousandths.  An embedding points in a direction of *)
(* the plane given by its text; the cosine distance operator <=> of the    *)
(* store is 1 - cos of the angle between two directions.  ts_rank_cd is    *)
(* the store's: a row ranks 1 when its content is the query word, else 0.  *)
(***************************************************************************)
LowerStr(str) == [x \in 1..Len(str) |-> IF str[x] \in 65..90 THEN str[x] + 32 ELSE str[x]]

\* direction, in degrees, of the embedding of a text: by its first letter
Angle(e) ==
    LET c == LowerStr(e[2])[1]
    IN  CASE c = 97 -> 0 [] c = 99 -> 45 [] c = 100 -> 90 [] c = 101 -> 180 [] OTHER -> 135

Cos(d) ==
    CASE d = 0 -> 1000 [] d = 45 -> 707 [] d = 90 -> 0 [] d = 135 -> 0 - 707 [] OTHER -> 0 - 1000

AbsDiff(a, b) == IF a < b THEN b - a ELSE a - b

\* 1 - (c.embedding <=> query_embedding)
Similarity(e, q) == Cos(AbsDiff(Angle(e), Angle(q)))

\* ts_rank_cd(to_tsvector('english', content), plainto_tsquery('english', query_text))
TsRank(content, queryText) == IF LowerStr(content) = LowerStr(queryText) THEN 1 ELSE 0

\* a threshold test that lets the threshold itself through
PassesThresholdGE(sim, threshold) == sim >= threshold

\* where 1 - (c.embedding <=> query_embedding) > match_threshold
PassesThreshold(sim, threshold) == sim > threshold

\* the lexical CTE with the user filter dropped from both definitions
LexicalSetsGlobal(st, queryText, limit, userId, scoped) ==
    LET eligible == 1..Len(st)
        n == Min2(limit, Cardinality(eligible))
    IN  {L \in SUBSET eligible :
            /\ Cardinality(L) = n
            /\ \A a \in L, b \in eligible \ L :
                 TsRank(st[a].content, queryText) >= TsRank(st[b].content, queryText)}

\* the lexical CTE: the sets of lexical_limit rows highest in rank (rows of
\* equal rank in any order).  The function of part_001 looks at the caller's
\* rows only, the one of part_002 at every row
LexicalSets(st, queryText, limit, userId, scoped) ==
    LET eligible == {id \in 1..Len(st) : scoped => st[id].user_id = userId}
        n == Min2(limit, Cardinality(eligible))
    IN  {L \in SUBSET eligible :
            /\ Cardinality(L) = n
            /\ \A a \in L, b \in eligible \ L :
                 TsRank(st[a].content, queryText) >= TsRank(st[b].content, queryText)}

\* rows of the lexical set that pass the where clause; a null embedding
\* makes the comparison null, and the row is dropped
Candidates(st, L, qemb, threshold) ==
    {id \in L : /\ st[id].embedding # NULL
                /\ PassesThreshold(Similarity(st[id].embedding, qemb), threshold)}

\* idx_chat_chunks_embedding is an ivfflat index read with 10 probes of its
\* 100 lists: a plan that orders through it sees the candidates of the lists
\* it probes, a plan that sorts sees them all
Probed(C) == SUBSET C

\* an order by and a limit that return any final_k candidates, nearest first
RankedAnyK(st, C, qemb, k) ==
    LET n == Min2(k, Cardinality(C))
        sim(id) == Similarity(st[id].embedding, qemb)
    IN  {sq \in [1..n -> C] :
            \A a, b \in 1..n : a < b => sq[a] # sq[b] /\ sim(sq[a]) >= sim(sq[b])}

\* order by c.embedding <=> query_embedding limit final_k: the orderings of
\* final_k nearest candidates (candidates of equal distance in any order)
Ranked(st, C, qemb, k) ==
    LET n == Min2(k, Cardinality(C))
        sim(id) == Similarity(st[id].embedding, qemb)
    IN  {sq \in [1..n -> C] :
            /\ \A a, b \in 1..n : a < b => sq[a] # sq[b] /\ sim(sq[a]) >= sim(sq[b])
            /\ \A c \in C \ Range(sq) : \A a \in 1..n : sim(sq[a]) >= sim(c)}

\* the row returned for a chunk
ResultRow(row, qemb) ==
    [chunk_id |-> row.id, content |-> row.content, participants |-> row.participants,
     start_time |-> row.start_time, end_time |-> row.end_time,
     original_filename |-> row.original_filename,
     similarity |-> Similarity(row.embedding, qemb)]

\* a stored row of the table
StoredRow(c, userId, embedded, id) ==
    Payload(c, userId) @@
        [id |-> id,
         embedding |-> IF embedded THEN Emb(Truncate(Text(c.content, Len(c.content)))) ELSE NULL]

RowStates == {<<"u1", TRUE>>, <<"u1", FALSE>>, <<"u2", TRUE>>}

RECURSIVE Tables(_)
\* the tables that hold some of the given chunks, each owned by u1 or u2
Tables(cs) ==
    IF cs = <<>> THEN {<<>>}
    ELSE LET rest == Tables(Tail(cs))
         IN  rest \cup
             {<<StoredRow(Head(cs), rs[1], rs[2], 1)>> \o
                 [x \in 1..Len(t) |-> [t[x] EXCEPT !.id = @ + 1]] : rs \in RowStates, t \in rest}

\* query texts "aa", "cc", "zz"
QueryPool == {<<97, 97>>, <<99, 99>>, <<122, 122>>}

\* match_threshold, lexical_limit, final_k: the values hybridSearch passes
\* (0.2, 5000, 50) and small ones that make the limits bind
SearchParams ==
    { [threshold |-> 200, lexical_limit |-> 5000, final_k |-> 50],
      [threshold |-> 200, lexical_limit |-> 3, final_k |-> 2],
      [threshold |-> 0, lexical_limit |-> 4, final_k |-> 2],
      [threshold |-> 707, lexical_limit |-> 2, final_k |-> 1],
      [threshold |-> 0 - 1000, lexical_limit |-> 1, final_k |-> 3] }

IdleSearch ==
    [pc |-> "idle", query |-> <<>>, userId |-> "u1",
     params |-> [threshold |-> 200, lexical_limit |-> 5000, final_k |-> 50],
     scoped |-> TRUE, embed |-> NULL, lexical |-> {}, probed |-> {}, result |-> <<>>, err |-> "none"]

SIdle == srch = IdleSearch

\* a table, the installed definition of the function, and a call
SInit ==
    /\ store \in Tables(<<cA, cC, cD, cE>>)
    /\ run = [r \in RunIds |-> IdleRun]
    /\ \E q \in QueryPool, u \in Owners, p \in SearchParams, sc \in BOOLEAN :
         srch = [IdleSearch EXCEPT !.pc = "embed", !.query = q, !.userId = u,
                                   !.params = p, !.scoped = sc]

\* line 467: generateEmbedding(query) returns
SearchEmbedOk ==
    /\ srch.pc = "embed"
    /\ srch' = [srch EXCEPT !.pc = "rpc",
                  !.embed = Emb(Truncate(Text(srch.query, Len(srch.query))))]
    /\ UNCHANGED <<store, run, wvars, bvars, uvars, evars, cvars, gvars, hvars>>

\* line 467: generateEmbedding(query) throws
SearchEmbedFail ==
    /\ srch.pc = "embed"
    /\ \E kind \in ErrKinds : srch' = [srch EXCEPT !.pc = "failed", !.err = kind]
    /\ UNCHANGED <<store, run, wvars, bvars, uvars, evars, cvars, gvars, hvars>>

\* lines 468-477 and the function body: one statement over the table
SearchRpcOk ==
    /\ srch.pc = "rpc"
    /\ \E L \in LexicalSets(store, srch.query, srch.params.lexical_limit, srch.userId, srch.scoped) :
         \E P \in Probed(Candidates(store, L, srch.embed, srch.params.threshold)) :
           \E sq \in Ranked(store, P, srch.embed, srch.params.final_k) :
            srch' = [srch EXCEPT !.pc = "done", !.lexical = L, !.probed = P,
                       !.result = [x \in 1..Len(sq) |-> ResultRow(store[sq[x]], srch.embed)]]
    /\ UNCHANGED <<store, run, wvars, bvars, uvars, evars, cvars, gvars, hvars>>

\* line 476
SearchRpcError ==
    /\ srch.pc = "rpc"
    /\ srch' = [srch EXCEPT !.pc = "failed", !.err = "store"]
    /\ UNCHANGED <<store, run, wvars, bvars, uvars, evars, cvars, gvars, hvars>>

(***************************************************************************)
(* Upload route, POST /api/upload (part_003 1-304)                         *)
(*                                                                         *)
(* A parsed JSON document is a tagged value: [t |-> "null"], "num" with a  *)
(* natural v, "str" with v its code units, "arr" with v the items, "obj"   *)
(* with f the sequence of <<key, value>> members in document order.        *)
(* JUndef is JavaScript's undefined (an absent member).                    *)
(***************************************************************************)
JUndef == [t |-> "undef"]
JNull == [t |-> "null"]
JNum(n) == [t |-> "num", v |-> n]
JStr(str) == [t |-> "str", v |-> str]
JArr(items) == [t |-> "arr", v |-> items]
JObj(members) == [t |-> "obj", f |-> members]

\* ToBoolean
Truthy(x) ==
    CASE x.t \in {"undef", "null"} -> FALSE
      [] x.t = "num" -> x.v # 0
      [] x.t = "str" -> x.v # <<>>
      [] OTHER -> TRUE

\* typeof x === "object" for a non-null x
IsObjectLike(x) == x.t \in {"obj", "arr"}

\* x[k] for a member name k
Get(x, k) ==
    IF x.t = "obj" /\ \E i \in 1..Len(x.f) : x.f[i][1] = k
    THEN x.f[CHOOSE i \in 1..Len(x.f) : x.f[i][1] = k][2]
    ELSE JUndef

\* a || b
Or(a, b) == IF Truthy(a) THEN a ELSE b

RECURSIVE OrKeys(_, _, _)
\* item[k1] || item[k2] || ... || last
OrKeys(item, ks, last) ==
    IF ks = <<>> THEN last ELSE Or(Get(item, Head(ks)), OrKeys(item, Tail(ks), last))

RECURSIVE Digits(_)
\* the decimal digits of a natural number
Digits(n) == IF n < 10 THEN <<48 + n>> ELSE Digits(n \div 10) \o <<48 + (n % 10)>>

RECURSIVE ToStr(_)
\* String(x)
ToStr(x) ==
    CASE x.t = "str" -> x.v
      [] x.t = "num" -> Digits(x.v)
      [] x.t = "null" -> <<110, 117, 108, 108>>
      [] x.t = "undef" -> <<117, 110, 100, 101, 102, 105, 110, 101, 100>>
      [] x.t = "arr" ->
           Join([i \in 1..Len(x.v) |->
                    IF x.v[i].t \in {"null", "undef"} THEN <<>> ELSE ToStr(x.v[i])], <<44>>)
      [] OTHER -> <<91, 111, 98, 106, 101, 99, 116, 32, 79, 98, 106, 101, 99, 116, 93>>

\* parseChatDate (part_000 12-59) on a member value.  A string that one of
\* the three stages reads as a date gives the date's ISO form (a date string
\* of the documents is in ISO form already); any other string gives null
\* (53-54).  A number is a valid time value.  On an array or an object
\* new Date() is invalid and dateString.replace raises, which is caught
\* (55-58) and gives null
parseChatDate(x) ==
    IF ~Truthy(x) THEN JNull
    ELSE IF x.t = "str" /\ x.v \in ValidDates THEN x
    ELSE IF x.t = "num" THEN JStr(T1)
    ELSE JNull

\* lines 222-235: the record with creator, text, topic_id and message_id
Structured(item) ==
    /\ Truthy(Get(item, "creator"))
    /\ Truthy(Get(item, "text"))
    /\ Truthy(Get(item, "topic_id"))
    /\ Truthy(Get(item, "message_id"))

ContentKeys == <<"content", "message", "text", "body", "msg">>
ParticipantKeys == <<"participant", "sender", "author", "from", "user", "name", "username">>
TimestampKeys == <<"timestamp", "date", "time", "created_at", "sent_at", "datetime">>

\* normalizeMessage, lines 215-276: a ChatMessage, or JNull
normalizeMessage(item, index) ==
    IF ~IsObjectLike(item) THEN JNull
    ELSE IF Structured(item) THEN
        LET creator == Get(item, "creator")
        IN  [t |-> "msg",
             creator |-> [name |-> Or(Get(creator, "name"), JStr(<<85, 110, 107, 110, 111, 119, 110>>)),
                          email |-> Or(Get(creator, "email"), JStr(<<>>)),
                          user_type |-> Or(Get(creator, "user_type"), JStr(<<72, 117, 109, 97, 110>>))],
             created_date |-> parseChatDate(Get(item, "created_date")),
             text |-> Get(item, "text"),
             topic_id |-> Get(item, "topic_id"),
             message_id |-> Get(item, "message_id")]
    ELSE LET content == OrKeys(item, ContentKeys, JNull)
             participant == OrKeys(item, ParticipantKeys, JStr(<<85, 110, 107, 110, 111, 119, 110>>))
             timestamp == OrKeys(item, TimestampKeys, JNull)
         IN  IF ~Truthy(content) THEN JNull
             ELSE [t |-> "msg",
                   creator |-> [name |-> JStr(ToStr(participant)), email |-> JStr(<<>>),
                                user_type |-> JStr(<<72, 117, 109, 97, 110>>)],
                   created_date |-> IF Truthy(timestamp) THEN JStr(ToStr(timestamp)) ELSE JNull,
                   text |-> JStr(ToStr(content)),
                   topic_id |-> Or(Get(item, "topic_id"),
                                   JStr(<<116, 111, 112, 105, 99, 95>> \o Digits(index))),
                   message_id |-> Or(Get(item, "message_id"),
                                     JStr(<<109, 115, 103, 95>> \o Digits(index)))]

\* items.forEach((item, index) => normalizeMessage(item, index)), nulls dropped
NormalizeAll(items) ==
    LET all == [i \in 1..Len(items) |-> normalizeMessage(items[i], i - 1)]
    IN  SelectSeq(all, LAMBDA m : m.t = "msg")

RECURSIVE Concat(_)
Concat(ss) == IF ss = <<>> THEN <<>> ELSE Head(ss) \o Concat(Tail(ss))

RECURSIVE extractFromNestedObject(_)
\* lines 278-304: the messages found in obj, in the order they are pushed
extractFromNestedObject(obj) ==
    IF obj.t = "arr" THEN
        Concat([i \in 1..Len(obj.v) |->
            LET m == normalizeMessage(obj.v[i], i - 1)
            IN  IF m.t = "msg" THEN <<m>>
                ELSE IF obj.v[i].t \in {"obj", "arr"} THEN extractFromNestedObject(obj.v[i])
                ELSE <<>>])
    ELSE IF obj.t = "obj" THEN
        Concat([i \in 1..Len(obj.f) |->
            IF IsObjectLike(obj.f[i][2]) THEN extractFromNestedObject(obj.f[i][2]) ELSE <<>>])
    ELSE <<>>

\* lines 183-210: the messages before the filter of line 212
Extracted(data) ==
    IF Truthy(Get(data, "messages")) /\ Get(data, "messages").t = "arr"
    THEN NormalizeAll(Get(data, "messages").v)
    ELSE IF data.t = "arr" THEN NormalizeAll(data.v)
    ELSE IF Truthy(Get(data, "conversations")) /\ Get(data, "conversations").t = "arr"
    THEN Concat([i \in 1..Len(Get(data, "conversations").v) |->
            LET conv == Get(data, "conversations").v[i]
            IN  IF Truthy(Get(conv, "messages")) /\ Get(conv, "messages").t = "arr"
                THEN NormalizeAll(Get(conv, "messages").v)
                ELSE <<>>])
    ELSE extractFromNestedObject(data)

\* extractMessagesFromJSON raises a TypeError: data is null (line 183), an
\* item of conversations is null (line 197), or the text of a message is
\* neither a string nor falsy (msg.text.trim, line 212)
ExtractThrows(data) ==
    \/ data.t = "null"
    \/ /\ ~(Truthy(Get(data, "messages")) /\ Get(data, "messages").t = "arr")
       /\ data.t # "arr"
       /\ Truthy(Get(data, "conversations")) /\ Get(data, "conversations").t = "arr"
       /\ \E i \in 1..Len(Get(data, "conversations").v) :
            Get(data, "conversations").v[i].t \in {"null", "undef"}
    \/ \E i \in 1..Len(Extracted(data)) :
            Extracted(data)[i].text.t # "str" /\ Truthy(Extracted(data)[i].text)

\* extractMessagesFromJSON without the filter of line 212
extractMessagesFromJSONNoFilter(data) == Extracted(data)

\* extractMessagesFromJSON, lines 179-213, when it does not raise
extractMessagesFromJSON(data) ==
    SelectSeq(Extracted(data),
              LAMBDA m : Truthy(m.text) /\ m.text.t = "str" /\ Len(Trim(m.text.v)) > 0)

RECURSIVE stripAnnotationsObjectsOnly(_)
\* stripAnnotations without the branch of lines 167-169: arrays are left alone
stripAnnotationsObjectsOnly(x) ==
    IF x.t = "obj" THEN
        LET kept == SelectSeq(x.f, LAMBDA m : m[1] # "annotations")
        IN  JObj([i \in 1..Len(kept) |-> <<kept[i][1], stripAnnotationsObjectsOnly(kept[i][2])>>])
    ELSE x

RECURSIVE stripAnnotations(_)
\* stripAnnotations, lines 164-177: the document it leaves
stripAnnotations(x) ==
    IF x.t = "arr" THEN JArr([i \in 1..Len(x.v) |-> stripAnnotations(x.v[i])])
    ELSE IF x.t = "obj" THEN
        LET kept == SelectSeq(x.f, LAMBDA m : m[1] # "annotations")
        IN  JObj([i \in 1..Len(kept) |-> <<kept[i][1], stripAnnotations(kept[i][2])>>])
    ELSE x

\* member names and short texts of the documents
Sa == <<97>>
Sb == <<98>>
SaMail == <<97, 64>>
SHello == <<104, 101, 108, 108, 111>>
SBlank == <<32, 32>>
SOk == <<111, 107>>
SJunkDate == <<106, 117, 110, 107>>

\* a record of the structured shape
StructuredItem(text, date) ==
    JObj(<< <<"creator", JObj(<< <<"name", JStr(Sa)>>, <<"email", JStr(SaMail)>> >>)>>,
            <<"created_date", date>>,
            <<"text", text>>,
            <<"topic_id", JStr(<<116>>)>>,
            <<"message_id", JStr(<<109>>)>>,
            <<"annotations", JArr(<<JObj(<< <<"text", JStr(SHello)>> >>)>>)>> >>)

\* the parsed documents of the requests
DocPool ==
    { JNull,
      JNum(5),
      JStr(SHello),
      JObj(<<>>),
      JObj(<< <<"messages", JArr(<<>>)>> >>),
      JObj(<< <<"messages", JArr(<<JObj(<< <<"text", JStr(SBlank)>> >>), JNum(7), JNull>>)>> >>),
      JObj(<< <<"messages", JArr(<<JObj(<< <<"text", JStr(SOk)>>, <<"from", JStr(Sb)>> >>)>>)>> >>),
      JObj(<< <<"messages", JArr(<<StructuredItem(JStr(SHello), JStr(T1)),
                                   StructuredItem(JStr(SHello), JStr(SJunkDate))>>)>> >>),
      JObj(<< <<"messages", JArr(<<StructuredItem(JNum(5), JNull)>>)>> >>),
      JObj(<< <<"messages", JArr(<<JObj(<< <<"content", JStr(SHello)>>, <<"sender", JStr(Sb)>>,
                                            <<"date", JStr(SJunkDate)>> >>)>>)>> >>),
      JArr(<< JObj(<< <<"content", JStr(SHello)>>, <<"sender", JStr(Sb)>>, <<"timestamp", JStr(T2)>> >>),
              JStr(SHello),
              JObj(<< <<"msg", JNum(0)>>, <<"body", JNum(42)>> >>) >>),
      JObj(<< <<"conversations", JArr(<< JObj(<< <<"messages", JArr(<<JObj(<< <<"message", JStr(SHello)>> >>)>>)>> >>),
                                         JObj(<< <<"x", JNum(1)>> >>) >>)>> >>),
      JObj(<< <<"conversations", JArr(<<JNull>>)>> >>),
      JObj(<< <<"annotations", JObj(<< <<"log", JArr(<<JObj(<< <<"text", JStr(SHello)>> >>)>>)>> >>)>> >>),
      JObj(<< <<"data", JObj(<< <<"items", JArr(<< JArr(<<JObj(<< <<"body", JStr(SHello)>>, <<"user", JStr(Sa)>> >>)>>),
                                                     JNull >>)>> >>)>> >>) }

\* a request: the API key is configured or not; the form data cannot be
\* read, has no file, or has one; the session has a user or not; the file
\* content is JSON text or not, and doc is what JSON.parse makes of it
Request(key, form, auth, parses, doc) ==
    [key |-> key, form |-> form, auth |-> auth, parses |-> parses, doc |-> doc]

RequestPool ==
    {Request(TRUE, "file", "user", TRUE, d) : d \in DocPool}
      \cup { Request(FALSE, "file", "user", TRUE, JObj(<<>>)),
             Request(TRUE, "unreadable", "user", TRUE, JObj(<<>>)),
             Request(TRUE, "nofile", "user", TRUE, JObj(<<>>)),
             Request(TRUE, "file", "nouser", TRUE, JObj(<<>>)),
             Request(TRUE, "file", "user", FALSE, JNull) }

\* the documents of the normalizer's runs: every tree of at most two levels
\* of arrays and objects over DocLeaves, with arrays of at most one item and
\* objects of the shapes of Objects, and on top of them the documents with a
\* messages array
DocLeaves == {JNull, JNum(5), JStr(SOk), JStr(SBlank)}
DocKeys == {"annotations", "text", "log"}

Objects(vals) ==
    {JObj(<<>>)}
      \cup {JObj(<< <<k, v>> >>) : k \in DocKeys, v \in vals}
      \cup {JObj(<< <<"annotations", v>>, <<"text", w>> >>) : v \in vals, w \in vals}
      \cup {JObj(<< <<"text", v>>, <<"annotations", w>> >>) : v \in vals, w \in vals}

Arrays(vals) == {JArr(<<>>)} \cup {JArr(<<v>>) : v \in vals}

Flat == DocLeaves \cup Arrays(DocLeaves) \cup Objects(DocLeaves)
Nested == Flat \cup Arrays(Flat) \cup Objects(Flat)

GenDocs ==
    Nested
      \cup {JObj(<< <<"messages", a>> >>) : a \in Arrays(Flat)}
      \cup {JObj(<< <<"annotations", JStr(SOk)>>, <<"messages", JArr(<<v, w, z>>)>> >>) :
                v \in Objects(DocLeaves), w \in Objects(DocLeaves),
                z \in {JNull, StructuredItem(JStr(SBlank), JNull)}}

IdleUpload ==
    [pc |-> "idle", req |-> Request(TRUE, "file", "user", TRUE, JObj(<<>>)),
     status |-> 0, error |-> "none", data |-> JUndef, messages |-> <<>>, chunks |-> <<>>,
     body |-> [inserted |-> 0, embedded |-> 0], store0 |-> <<>>]

UIdle == up = IdleUpload

\* a request arrives at a table that earlier uploads left
UInit ==
    /\ store \in Tables(<<cC>>)
    /\ run = [r \in RunIds |-> IdleRun]
    /\ \E rq \in RequestPool :
         up = [IdleUpload EXCEPT !.pc = "key", !.req = rq, !.store0 = store]

\* the file of a request holds one of the documents
NInit ==
    /\ store = <<>>
    /\ run = [r \in RunIds |-> IdleRun]
    /\ \E d \in GenDocs \cup DocPool :
         up = [IdleUpload EXCEPT !.pc = "parse", !.req = Request(TRUE, "file", "user", TRUE, d)]

\* NextResponse.json({error}, {status})
Respond(u, status, error) == [u EXCEPT !.pc = "responded", !.status = status, !.error = error]

\* lines 27-35
UpNoKey ==
    /\ up.pc = "key" /\ ~up.req.key
    /\ up' = Respond(up, 500, "Server configuration error: Missing OpenAI API key")
    /\ UNCHANGED <<store, run, wvars, bvars, svars, evars, cvars, gvars, hvars>>

\* lines 38-45; a body that is not form data makes formData() raise (line 151)
UpFormData ==
    /\ up.pc = "key" /\ up.req.key
    /\ up' = CASE up.req.form = "unreadable" -> Respond(up, 500, "Failed to process chat history")
               [] up.req.form = "nofile" -> Respond(up, 400, "No file provided")
               [] OTHER -> [up EXCEPT !.pc = "auth"]
    /\ UNCHANGED <<store, run, wvars, bvars, svars, evars, cvars, gvars, hvars>>

\* lines 51-62
UpAuth ==
    /\ up.pc = "auth"
    /\ up' = IF up.req.auth = "nouser" THEN Respond(up, 401, "Unauthorized")
             ELSE [up EXCEPT !.pc = "parse"]
    /\ UNCHANGED <<store, run, wvars, bvars, svars, evars, cvars, gvars, hvars>>

\* the handler without the test of lines 86-92
UpParseNoLengthTest ==
    /\ up.pc = "parse"
    /\ up' = IF ~up.req.parses THEN Respond(up, 400, "Invalid JSON file")
             ELSE LET data == stripAnnotations(up.req.doc)
                      u == [up EXCEPT !.data = data]
                  IN  IF ExtractThrows(data) THEN Respond(u, 500, "Failed to process chat history")
                      ELSE [u EXCEPT !.pc = "dbtest", !.messages = extractMessagesFromJSON(data)]
    /\ UNCHANGED <<store, run, wvars, bvars, svars, evars, cvars, gvars, hvars>>

\* lines 68-92 run without an await in between: JSON.parse, stripAnnotations,
\* extractMessagesFromJSON and the test of the number of messages
UpParse ==
    /\ up.pc = "parse"
    /\ up' = IF ~up.req.parses THEN Respond(up, 400, "Invalid JSON file")
             ELSE LET data == stripAnnotations(up.req.doc)
                      u == [up EXCEPT !.data = data]
                  IN  IF ExtractThrows(data) THEN Respond(u, 500, "Failed to process chat history")
                      ELSE IF Len(extractMessagesFromJSON(data)) = 0
                           THEN Respond(u, 400, "No messages found in the file")
                           ELSE [u EXCEPT !.pc = "dbtest", !.messages = extractMessagesFromJSON(data)]
    /\ UNCHANGED <<store, run, wvars, bvars, svars, evars, cvars, gvars, hvars>>

\* lines 95-110: the test select returns without error
UpDbTestOk ==
    /\ up.pc = "dbtest"
    /\ up' = [up EXCEPT !.pc = "window"]
    /\ UNCHANGED <<store, run, wvars, bvars, svars, evars, cvars, gvars, hvars>>

\* lines 101-123: the test select returns an error or raises
UpDbTestError ==
    /\ up.pc = "dbtest"
    /\ \E e \in {"Database connection failed", "Database error"} : up' = Respond(up, 500, e)
    /\ UNCHANGED <<store, run, wvars, bvars, svars, evars, cvars, gvars, hvars>>

\* lines 127-132
Normalized(messages) ==
    [i \in 1..Len(messages) |->
        [content |-> messages[i].text.v,
         timestamp |-> IF messages[i].created_date.t = "str" THEN messages[i].created_date.v ELSE NULL,
         participant |-> ToStr(messages[i].creator.name),
         email |-> ToStr(messages[i].creator.email)]]

DefaultParams == [target |-> 1000, min |-> 400, max |-> 1600]

RECURSIVE WindowLoop(_, _, _, _)
\* the for loop of windowMessagesIntoChunks from message n on
WindowLoop(cur, chs, ms, p) ==
    IF ms = <<>> THEN <<cur, chs>>
    ELSE LET r == WindowIter(cur, chs, Head(ms), p)
         IN  WindowLoop(r[1], r[2], Tail(ms), p)

\* windowMessagesIntoChunks(messages) with the default sizes
windowMessagesIntoChunks(ms) ==
    LET r == WindowLoop(EmptyCurrent, <<>>, ms, DefaultParams)
    IN  pushCurrent(r[1], r[2])[2]

\* lines 127-140: the chunks are made and upsertChunksAndEmbed(user.id,
\* chunks, filename) begins
UpIngestStart ==
    /\ up.pc = "window"
    /\ LET cs == windowMessagesIntoChunks(Normalized(up.messages))
       IN  /\ up' = [up EXCEPT !.pc = "ingest", !.chunks = cs]
           /\ run' = [run EXCEPT ![1] =
                  [IdleRun EXCEPT !.pc = IF Len(cs) = 0 THEN "select" ELSE "upsert",
                                  !.owner = "u1", !.rows = cs, !.alone = TRUE, !.snap = store]]
    /\ UNCHANGED <<store, wvars, bvars, svars, evars, cvars, gvars, hvars>>

\* lines 143-150
UpIngestDone ==
    /\ up.pc = "ingest" /\ run[1].pc = "done"
    /\ up' = [Respond(up, 200, "none") EXCEPT
                !.body = [inserted |-> run[1].inserted, embedded |-> run[1].embedded]]
    /\ UNCHANGED <<store, run, wvars, bvars, svars, evars, cvars, gvars, hvars>>

\* lines 151-161: what upsertChunksAndEmbed raised
UpIngestFailed ==
    /\ up.pc = "ingest" /\ run[1].pc = "failed"
    /\ up' = Respond(up, 500, "Failed to process chat history")
    /\ UNCHANGED <<store, run, wvars, bvars, svars, evars, cvars, gvars, hvars>>

(***************************************************************************)
(* checkForDuplicateMessage and embedChatHistoryEntry, lib/rag.ts 113-277  *)
(*                                                                         *)
(* chat_history and chat_embeddings (scripts/003_create_functions.sql      *)
(* 79-97, part_001 5-10) are kept in insertion order; a row's id is its    *)
(* index.  Each action is one awaited call with what follows it up to the  *)
(* next await.                                                             *)
(***************************************************************************)
maxRetries == 3
baseDelay == 1000

Mid1 == <<109, 49>>
Mid2 == <<109, 50>>
Tid1 == <<116, 49>>
Tid2 == <<116, 50>>

HistRow(u, c, m, t) ==
    [user_id |-> u, message_content |-> c, message_id |-> m, topic_id |-> t]

HistRowPool ==
    { HistRow(u, c, mt[1], mt[2]) :
        u \in Owners, c \in {Sa, Sb}, mt \in {<<NULL, NULL>>, <<Mid1, Tid1>>, <<Mid2, Tid1>>} }

\* the tables earlier calls left: up to two rows
HistTables ==
    {<<>>} \cup {<<r>> : r \in HistRowPool}
           \cup {<<r[1], r[2]>> : r \in {q \in HistRowPool \X HistRowPool : q[1] # q[2]}}

\* what a call can raise: an Error instance, or the error object of a
\* response (both are thrown by the callbacks of lines 228-264)
ErrPool ==
    { [isError |-> TRUE, msg |-> "fetch failed"],
      [isError |-> FALSE, msg |-> "permission denied"] }

NoResult == [t |-> "none"]

\* the filters .eq("message_id", ..) and .eq("topic_id", ..) add to a builder
NoFilter == [mid |-> NULL, tid |-> NULL]

IdleEntry ==
    [pc |-> "idle", mode |-> "embed", accum |-> TRUE,
     userId |-> "u1", content |-> Sa, mid |-> NULL, tid |-> NULL,
     filt |-> NoFilter, attempt |-> 0, probeFailed |-> FALSE, finalFailed |-> FALSE,
     hist |-> <<>>, embs |-> <<>>, hist0 |-> <<>>,
     dup |-> "none", histId |-> 0, embedding |-> NULL, provCalls |-> 0,
     \* the attempts made of each operation and the waits after them
     calls |-> [insert |-> 0, embed |-> 0, store |-> 0],
     waits |-> [insert |-> <<>>, embed |-> <<>>, store |-> <<>>],
     result |-> NoResult]

EIdle == ent = IdleEntry

\* a call begins.  mode: which of the two functions is called; accum:
\* whether a filter method adds its filter to the builder it is called on
\* (query is one object, lines 123-127, and every probe is made from it) or
\* returns a builder of its own
EInit ==
    \E mode \in {"embed", "check"}, accum \in BOOLEAN, h \in HistTables,
       m \in {NULL, Mid1, Mid2}, t \in {NULL, Tid1, Tid2} :
        ent = [IdleEntry EXCEPT
                 !.pc = IF mode = "embed" THEN "client" ELSE "c_client",
                 !.mode = mode, !.accum = accum, !.mid = m, !.tid = t,
                 !.hist = h, !.hist0 = h]

\* the catch of lines 267-276 leaves the caller without the error
Uncaught(e, err) == [e EXCEPT !.pc = "raised", !.result = [t |-> "raised", details |-> err]]

\* lines 267-276: the error becomes the function's value
Caught(e, err) ==
    [e EXCEPT !.pc = "done",
              !.result = [t |-> "error",
                          message |-> IF err.isError THEN err.msg ELSE "Unknown error",
                          details |-> err]]

\* the rows a probe with the filters f selects (lines 123-127 and the filters
\* added since)
Matching(e, f) ==
    {id \in 1..Len(e.hist) :
        /\ e.hist[id].user_id = e.userId
        /\ e.hist[id].message_content = e.content
        /\ f.mid # NULL => e.hist[id].message_id = f.mid
        /\ f.tid # NULL => e.hist[id].topic_id = f.tid}

\* the filters of a probe that adds the filter g to the builder
WithFilter(e, g) ==
    [mid |-> IF g.mid # NULL THEN g.mid ELSE e.filt.mid,
     tid |-> IF g.tid # NULL THEN g.tid ELSE e.filt.tid]

\* the builder after the probe
Built(e, g) == IF e.accum THEN [e EXCEPT !.filt = WithFilter(e, g)] ELSE e

\* checkForDuplicateMessage returns b: to its caller (lines 213-228), or as
\* the value of the call
CheckReturns(e, b) ==
    IF e.mode = "check"
    THEN [e EXCEPT !.pc = "done", !.dup = b, !.result = [t |-> "bool", v |-> b]]
    ELSE IF b THEN [e EXCEPT !.pc = "done", !.dup = b, !.result = [t |-> "null"]]
    ELSE [e EXCEPT !.pc = "insert", !.dup = b, !.attempt = 0]

\* the probe the check makes next, lines 130, 141 and 152
AfterClient(e) ==
    [e EXCEPT !.pc = IF e.mid # NULL THEN "c_mid" ELSE IF e.tid # NULL THEN "c_tid" ELSE "c_final"]

AfterMid(e) == [e EXCEPT !.pc = IF e.tid # NULL THEN "c_tid" ELSE "c_final"]

\* line 211: createClient()
EntClient ==
    /\ ent.pc = "client"
    /\ \/ ent' = [ent EXCEPT !.pc = "c_client"]
       \/ \E err \in ErrPool : ent' = Caught(ent, err)
    /\ UNCHANGED <<wvars, bvars, ivars, svars, uvars, cvars, gvars, hvars>>

\* line 120: createClient() of the check; what it raises is caught at 160
ChkClient ==
    /\ ent.pc = "c_client"
    /\ \/ ent' = AfterClient(ent)
       \/ ent' = CheckReturns([ent EXCEPT !.probeFailed = TRUE], FALSE)
    /\ UNCHANGED <<wvars, bvars, ivars, svars, uvars, cvars, gvars, hvars>>

\* lines 130-138: the probe with the message identifier.  It answers with
\* rows, answers with an error (the probe is passed over), or raises
ChkProbeMessageId ==
    /\ ent.pc = "c_mid"
    /\ LET f == WithFilter(ent, [mid |-> ent.mid, tid |-> NULL])
           e == Built(ent, [mid |-> ent.mid, tid |-> NULL])
       IN  \/ ent' = IF Matching(ent, f) # {} THEN CheckReturns(e, TRUE) ELSE AfterMid(e)
           \/ ent' = AfterMid([e EXCEPT !.probeFailed = TRUE])
           \/ ent' = CheckReturns([e EXCEPT !.probeFailed = TRUE], FALSE)
    /\ UNCHANGED <<wvars, bvars, ivars, svars, uvars, cvars, gvars, hvars>>

\* lines 141-149: the probe with the topic identifier
ChkProbeTopicId ==
    /\ ent.pc = "c_tid"
    /\ LET f == WithFilter(ent, [mid |-> NULL, tid |-> ent.tid])
           e == Built(ent, [mid |-> NULL, tid |-> ent.tid])
       IN  \/ ent' = IF Matching(ent, f) # {} THEN CheckReturns(e, TRUE)
                     ELSE [e EXCEPT !.pc = "c_final"]
           \/ ent' = [e EXCEPT !.pc = "c_final", !.probeFailed = TRUE]
           \/ ent' = CheckReturns([e EXCEPT !.probeFailed = TRUE], FALSE)
    /\ UNCHANGED <<wvars, bvars, ivars, svars, uvars, cvars, gvars, hvars>>

\* the last probe with a failure taken for a duplicate
ChkProbeContentFailsTrue ==
    /\ ent.pc = "c_final"
    /\ \/ ent' = CheckReturns(ent, Matching(ent, ent.filt) # {})
       \/ ent' = CheckReturns([ent EXCEPT !.probeFailed = TRUE, !.finalFailed = TRUE], TRUE)
    /\ UNCHANGED <<wvars, bvars, ivars, svars, uvars, cvars, gvars, hvars>>

\* lines 152-163: the last probe; an error or an exception gives false
ChkProbeContent ==
    /\ ent.pc = "c_final"
    /\ \/ ent' = CheckReturns(ent, Matching(ent, ent.filt) # {})
       \/ ent' = CheckReturns([ent EXCEPT !.probeFailed = TRUE, !.finalFailed = TRUE], FALSE)
    /\ UNCHANGED <<wvars, bvars, ivars, svars, uvars, cvars, gvars, hvars>>

\* a retryWithBackoff that counts the attempts of the operations before
RetrySharedBudget(e, op, err) ==
    IF e.calls.insert + e.calls.embed + e.calls.store > maxRetries THEN Caught(e, err)
    ELSE [e EXCEPT !.attempt = @ + 1, !.waits[op] = Append(@, baseDelay * Pow2(e.attempt))]

\* retryWithBackoff, lines 167-192: the callback of the operation op raised
\* err at this attempt; after the last attempt the error is thrown at once,
\* after another the loop waits baseDelay * 2^attempt
Retry(e, op, err) ==
    IF e.attempt = maxRetries THEN Caught(e, err)
    ELSE [e EXCEPT !.attempt = @ + 1, !.waits[op] = Append(@, baseDelay * Pow2(e.attempt))]

\* lines 228-249: one attempt to insert the chat_history row
EntInsertHistory ==
    /\ ent.pc = "insert"
    /\ \/ ent' = [ent EXCEPT
                    !.hist = Append(@, HistRow(ent.userId, ent.content, ent.mid, ent.tid)),
                    !.histId = Len(ent.hist) + 1, !.calls.insert = @ + 1,
                    !.pc = "embed", !.attempt = 0]
       \/ \E err \in ErrPool : ent' = Retry([ent EXCEPT !.calls.insert = @ + 1], "insert", err)
    /\ UNCHANGED <<wvars, bvars, ivars, svars, uvars, cvars, gvars, hvars>>

\* lines 252-254: one attempt of generateEmbedding(messageContent)
EntGenerateEmbedding ==
    /\ ent.pc = "embed"
    /\ \/ ent' = [ent EXCEPT !.embedding = <<"vec", ent.content>>, !.provCalls = @ + 1,
                             !.calls.embed = @ + 1, !.pc = "store", !.attempt = 0]
       \/ \E err \in ErrPool :
            ent' = Retry([ent EXCEPT !.provCalls = @ + 1, !.calls.embed = @ + 1], "embed", err)
    /\ UNCHANGED <<wvars, bvars, ivars, svars, uvars, cvars, gvars, hvars>>

\* lines 257-266: one attempt to insert the chat_embeddings row, and the
\* return of the id
EntInsertEmbedding ==
    /\ ent.pc = "store"
    /\ \/ ent' = [ent EXCEPT
                    !.embs = Append(@, [chat_history_id |-> ent.histId,
                                        embedding |-> ent.embedding]),
                    !.calls.store = @ + 1,
                    !.pc = "done", !.result = [t |-> "id", v |-> ent.histId]]
       \/ \E err \in ErrPool : ent' = Retry([ent EXCEPT !.calls.store = @ + 1], "store", err)
    /\ UNCHANGED <<wvars, bvars, ivars, svars, uvars, cvars, gvars, hvars>>

(***************************************************************************)
(* searchChatHistory, lib/rag.ts 19-48, and the function                   *)
(* search_chat_history of part_001 22-76 and part_002 29-82.  The call is  *)
(* kept in srch, the tables chat_history and chat_embeddings in ent.hist   *)
(* and ent.embs; srch.lexical holds the rows of the candidates CTE.        *)
(***************************************************************************)
\* greatest(match_count * 10, 50), scaled
CandidateFactor == 2
CandidateFloor == 3
CandidateLimit(matchCount) ==
    IF matchCount * CandidateFactor > CandidateFloor
    THEN matchCount * CandidateFactor ELSE CandidateFloor

\* the texts of the rows of chat_history: "a", "c", "d", "e", "ab"
LegacyTexts == << <<97>>, <<99>>, <<100>>, <<101>>, <<97, 98>> >>

\* chat_history with a row per text, each of u1 or u2, and chat_embeddings
\* with the vector of some of the rows
LegacyTables ==
    { [hist |-> [i \in 1..Len(LegacyTexts) |-> HistRow(own[i], LegacyTexts[i], NULL, NULL)],
       embs |-> emb] :
        own \in [1..Len(LegacyTexts) -> Owners],
        emb \in { [i \in 1..n |->
                      [chat_history_id |-> n0 + i,
                       embedding |-> Emb(Truncate(Text(LegacyTexts[n0 + i], Len(LegacyTexts[n0 + i]))))]] :
                    n0 \in {0, 1}, n \in {3, 4} } }

\* match_threshold and match_count: the defaults of searchChatHistory (0.78
\* and 10) and small ones that make the limits bind
LegacyParams ==
    { [threshold |-> 780, match_count |-> 10],
      [threshold |-> 0, match_count |-> 1],
      [threshold |-> 0 - 1000, match_count |-> 1],
      [threshold |-> 0 - 708, match_count |-> 2] }

\* a call, the installed definition of the function, and the tables
LInit ==
    /\ store = <<>>
    /\ run = [r \in RunIds |-> IdleRun]
    /\ \E t \in LegacyTables : ent = [IdleEntry EXCEPT !.hist = t.hist, !.embs = t.embs]
    /\ \E q \in QueryPool, u \in Owners, p \in LegacyParams, sc \in BOOLEAN :
         srch = [IdleSearch EXCEPT !.pc = "embed", !.query = q, !.userId = u,
                                   !.params = p, !.scoped = sc]

\* the candidates CTE without its limit
LegacyCandidatesNoLimit(embs, P, qemb, limit) == {P}

\* the candidates CTE: the sets of the limit nearest of the rows P that the
\* plan reads (rows of equal distance in any order)
LegacyCandidates(embs, P, qemb, limit) ==
    LET n == Min2(limit, Cardinality(P))
    IN  {C \in SUBSET P :
            /\ Cardinality(C) = n
            /\ \A a \in C, b \in P \ C :
                 Similarity(embs[a].embedding, qemb) >= Similarity(embs[b].embedding, qemb)}

\* the join and the where clause: part_001 keeps the rows of the target
\* user, part_002 the rows of every user
LegacyMatches(hist, embs, C, qemb, threshold, userId, scoped) ==
    {a \in C : /\ embs[a].chat_history_id \in 1..Len(hist)
               /\ scoped => hist[embs[a].chat_history_id].user_id = userId
               /\ PassesThreshold(Similarity(embs[a].embedding, qemb), threshold)}

\* the row returned for a row of chat_embeddings
LegacyRow(hist, embs, a, qemb) ==
    [id |-> embs[a].chat_history_id,
     message_content |-> hist[embs[a].chat_history_id].message_content,
     similarity |-> Similarity(embs[a].embedding, qemb)]

\* line 27: generateEmbedding(query) returns
LegacyEmbedOk ==
    /\ srch.pc = "embed"
    /\ srch' = [srch EXCEPT !.pc = "rpc",
                  !.embed = Emb(Truncate(Text(srch.query, Len(srch.query))))]
    /\ UNCHANGED <<store, run, wvars, bvars, uvars, evars, cvars, gvars, hvars>>

\* line 27: generateEmbedding(query) throws, and lines 44-47 throw it again
LegacyEmbedFail ==
    /\ srch.pc = "embed"
    /\ \E kind \in ErrKinds : srch' = [srch EXCEPT !.pc = "failed", !.err = kind]
    /\ UNCHANGED <<store, run, wvars, bvars, uvars, evars, cvars, gvars, hvars>>

\* lines 30-43 and the function body: one statement over the tables.  The
\* ivfflat index idx_chat_embeddings_vector (part_002 18-19) is read with 10
\* probes of its 100 lists: a plan that orders through it sees the rows of
\* the lists it probes, a plan that sorts sees them all
LegacyRpcOk ==
    /\ srch.pc = "rpc"
    /\ \E P \in Probed(1..Len(ent.embs)) :
         \E C \in LegacyCandidates(ent.embs, P, srch.embed, CandidateLimit(srch.params.match_count)) :
           \E sq \in Ranked(ent.embs,
                            LegacyMatches(ent.hist, ent.embs, C, srch.embed,
                                          srch.params.threshold, srch.userId, srch.scoped),
                            srch.embed, srch.params.match_count) :
            srch' = [srch EXCEPT !.pc = "done", !.probed = P, !.lexical = C,
                       !.result = [x \in 1..Len(sq) |-> LegacyRow(ent.hist, ent.embs, sq[x], srch.embed)]]
    /\ UNCHANGED <<store, run, wvars, bvars, uvars, evars, cvars, gvars, hvars>>

\* lines 38-41: the call returns an error
LegacyRpcError ==
    /\ srch.pc = "rpc"
    /\ srch' = [srch EXCEPT !.pc = "failed", !.err = "store"]
    /\ UNCHANGED <<store, run, wvars, bvars, uvars, evars, cvars, gvars, hvars>>

(***************************************************************************)
(* getUserCorpusCoverage, lib/rag.ts 480-557, and formatChatDate,          *)
(* part_000 64-80                                                          *)
(*                                                                         *)
(* A timestamp is a one-character string; its instant is the character's   *)
(* code.  T2 and T3 lie in the same minute, T1 in an earlier one.          *)
(***************************************************************************)
\* new Date(t).getTime()
DateOf(t) == t[1]

UnknownDate == "Unknown date"

\* formatChatDate: year, month, day, hour and minute of the instant
formatChatDate(t) ==
    IF t = NULL THEN UnknownDate ELSE <<"minute", (DateOf(t) - 48) \div 2>>

\* lines 543-546, for the one or two candidates there are
pickMin(vals) ==
    IF vals = <<>> THEN NULL
    ELSE IF Len(vals) = 1 THEN vals[1]
    ELSE IF DateOf(vals[1]) < DateOf(vals[2]) THEN vals[1] ELSE vals[2]

\* lines 547-550
pickMax(vals) ==
    IF vals = <<>> THEN NULL
    ELSE IF Len(vals) = 1 THEN vals[1]
    ELSE IF DateOf(vals[1]) > DateOf(vals[2]) THEN vals[1] ELSE vals[2]

cF == Chunk(<<70, 102>>, NULL, T1)

Reads == {"es", "ee", "le", "ls", "count"}

\* the values of a column in the user's rows, nulls left out (.eq, .not)
TimesOf(st, userId, col) ==
    {st[id][col] : id \in {x \in 1..Len(st) : st[x].user_id = userId /\ st[x][col] # NULL}}

\* .order(col, {ascending}).limit(1): the column of the first row, or no row
FirstOf(S, ascending) ==
    IF S = {} THEN NULL
    ELSE CHOOSE t \in S : \A u \in S :
            IF ascending THEN DateOf(t) <= DateOf(u) ELSE DateOf(t) >= DateOf(u)

\* what the store answers to each of the five reads, lines 494-527
ReadAnswer(st, userId, rd) ==
    CASE rd = "es" -> FirstOf(TimesOf(st, userId, "start_time"), TRUE)
      [] rd = "ee" -> FirstOf(TimesOf(st, userId, "end_time"), TRUE)
      [] rd = "le" -> FirstOf(TimesOf(st, userId, "end_time"), FALSE)
      [] rd = "ls" -> FirstOf(TimesOf(st, userId, "start_time"), FALSE)
      [] rd = "count" -> Cardinality({x \in 1..Len(st) : st[x].user_id = userId})

\* a read that has not answered, and the answer { data: null, error } or
\* { count: null, error }
Unread == [ok |-> FALSE, v |-> NULL]

IdleCoverage ==
    [pc |-> "idle", userId |-> "u1", pending |-> {}, res |-> [rd \in Reads |-> Unread],
     failed |-> FALSE, result |-> [earliest |-> NULL, latest |-> NULL, totalChunks |-> 0]]

CIdle == cov = IdleCoverage

CInit ==
    /\ store \in Tables(<<cA, cC, cD, cE, cF>>)
    /\ run = [r \in RunIds |-> IdleRun]
    /\ cov = [IdleCoverage EXCEPT !.pc = "client"]

\* a candidate is pushed when the value is truthy, lines 539-542
Candidates2(a, b) ==
    (IF a.v # NULL THEN <<a.v>> ELSE <<>>) \o (IF b.v # NULL THEN <<b.v>> ELSE <<>>)

\* lines 529-556
CoverageOf(res) ==
    [earliest |-> formatChatDate(pickMin(Candidates2(res["es"], res["ee"]))),
     latest |-> formatChatDate(pickMax(Candidates2(res["le"], res["ls"]))),
     totalChunks |-> IF res["count"].ok THEN res["count"].v ELSE 0]

\* line 485: createClient() returns, and the five reads are sent (488-527);
\* or it raises
CovClient ==
    /\ cov.pc = "client"
    /\ \/ cov' = [cov EXCEPT !.pc = "reads", !.pending = Reads]
       \/ cov' = [cov EXCEPT !.pc = "raised"]
    /\ UNCHANGED <<wvars, bvars, ivars, svars, uvars, evars, gvars, hvars>>

\* the value of the call once no read is pending
Joined(c) ==
    IF c.pending = {} THEN [c EXCEPT !.pc = "done", !.result = CoverageOf(c.res)] ELSE c

\* one of the reads answers with its rows
CovReadOk ==
    /\ cov.pc = "reads"
    /\ \E rd \in cov.pending :
         cov' = Joined([cov EXCEPT !.pending = @ \ {rd},
                                   !.res[rd] = [ok |-> TRUE, v |-> ReadAnswer(store, cov.userId, rd)]])
    /\ UNCHANGED <<wvars, bvars, ivars, svars, uvars, evars, gvars, hvars>>

\* one of the reads answers with an error: its data (or count) is null, and
\* the error is not looked at
CovReadError ==
    /\ cov.pc = "reads"
    /\ \E rd \in cov.pending :
         cov' = Joined([cov EXCEPT !.pending = @ \ {rd}, !.res[rd] = Unread, !.failed = TRUE])
    /\ UNCHANGED <<wvars, bvars, ivars, svars, uvars, evars, gvars, hvars>>

\* one of the reads raises: Promise.all rejects and the call raises
CovReadRaises ==
    /\ cov.pc = "reads"
    /\ cov.pending # {}
    /\ cov' = [cov EXCEPT !.pc = "raised", !.failed = TRUE]
    /\ UNCHANGED <<wvars, bvars, ivars, svars, uvars, evars, gvars, hvars>>

(***************************************************************************)
(* generateEmbedding, lib/openai.ts 11-52                                  *)
(*                                                                         *)
(* The message of a provider error is kept as the set of the tested        *)
(* substrings it contains.                                                 *)
(***************************************************************************)
Indications == {"rate_limit", "429", "quota", "billing", "fetch failed", "network"}

\* what openai.embeddings.create can raise: an Error with a message, or a
\* value that is not an Error
ProviderErrors == [isError : BOOLEAN, includes : SUBSET Indications]

RateLimited == "Rate limit exceeded - please try again later"
QuotaExceeded == "API quota exceeded - please check your OpenAI billing"
NetworkError == "Network error - please check your connection"
EmbeddingFailed == "Failed to generate embedding"

\* the tests in the order quota, rate limit, network
ClassifyQuotaFirst(err) ==
    IF err.isError /\ err.includes \cap {"quota", "billing"} # {} THEN QuotaExceeded
    ELSE IF err.isError /\ err.includes \cap {"rate_limit", "429"} # {} THEN RateLimited
    ELSE IF err.isError /\ err.includes \cap {"fetch failed", "network"} # {} THEN NetworkError
    ELSE EmbeddingFailed

\* lines 23-51: the message of the Error thrown for a caught error
Classify(err) ==
    IF err.isError /\ err.includes \cap {"rate_limit", "429"} # {} THEN RateLimited
    ELSE IF err.isError /\ err.includes \cap {"quota", "billing"} # {} THEN QuotaExceeded
    ELSE IF err.isError /\ err.includes \cap {"fetch failed", "network"} # {} THEN NetworkError
    ELSE EmbeddingFailed

\* the caller's texts: short, at the limit, one over, twice the limit
GenTexts ==
    {Text(1, 40), Text(2, MaxEmbedChars), Text(3, MaxEmbedChars + 1), Text(4, 2 * MaxEmbedChars)}

IdleGen ==
    [pc |-> "idle", text |-> Text(1, 40), sent |-> <<>>, response |-> "none",
     caught |-> <<>>, thrown |-> "none", result |-> NULL]

GIdle == gen = IdleGen

GInit == \E t \in GenTexts : gen = [IdleGen EXCEPT !.pc = "create", !.text = t]

\* lines 14-22: the request returns with the vector of its input
GenCreateOk ==
    /\ gen.pc = "create"
    /\ gen' = [gen EXCEPT !.pc = "returned", !.response = "data",
                          !.sent = Append(@, Truncate(gen.text)),
                          !.result = Emb(Truncate(gen.text))]
    /\ UNCHANGED <<wvars, bvars, ivars, svars, uvars, evars, cvars, hvars>>

\* lines 16-51: the request raises; the error is classified and an Error
\* with the class's message is thrown
GenCreateFails ==
    /\ gen.pc = "create"
    /\ \E err \in ProviderErrors :
         gen' = [gen EXCEPT !.pc = "thrown", !.response = "error",
                            !.sent = Append(@, Truncate(gen.text)),
                            !.caught = <<err>>,
                            !.thrown = Classify(err)]
    /\ UNCHANGED <<wvars, bvars, ivars, svars, uvars, evars, cvars, hvars>>

\* line 22 on a response without data: the TypeError is caught at 23 and
\* none of the tests applies to its message
GenCreateEmpty ==
    /\ gen.pc = "create"
    /\ gen' = [gen EXCEPT !.pc = "thrown", !.response = "empty",
                          !.sent = Append(@, Truncate(gen.text)),
                          !.caught = <<[isError |-> TRUE, includes |-> {}]>>,
                          !.thrown = Classify([isError |-> TRUE, includes |-> {}])]
    /\ UNCHANGED <<wvars, bvars, ivars, svars, uvars, evars, cvars, hvars>>

(***************************************************************************)
(* The chat view, components/chat-area.tsx 30-176                          *)
(*                                                                         *)
(* A message carries the thread it belongs to.  The requests in flight are *)
(* the loads of loadMessages, counted per thread, and the one submission   *)
(* of handleSubmit that isLoading admits.                                  *)
(***************************************************************************)
\* the thread identifiers "A" and "B"
ThreadA == <<65>>
ThreadB == <<66>>
Threads == {ThreadA, ThreadB}

MaxSelects == 2
MaxSubmits == 2

\* the trimmed length of what the user typed: blank, short, longer than 50
InputLengths == {0, 2, 51}

TitleLimit == 50

\* lines 139: the first 50 characters and "..." when the text is longer
TitleOf(len) == [len |-> Min2(len, TitleLimit), dots |-> len > TitleLimit]

ChatMsg(t, role, id) == [thread |-> t, role |-> role, id |-> id]

\* the row of chat_messages that the n-th insert for thread t makes
ChatRow(t, role, n) == ChatMsg(t, role, <<"row", t, n>>)

NoSubmission == [pc |-> "none", thread |-> NULL, len |-> 0, temp |-> NULL, first |-> FALSE]

\* the tables the earlier sessions left: a thread with or without messages
ChatTables ==
    [Threads -> {<<>>}] \cup
    {[t \in Threads |-> IF t \in S THEN <<ChatRow(t, "user", 1), ChatRow(t, "assistant", 2)>>
                        ELSE <<>>] : S \in SUBSET Threads}

IdleChat ==
    [threadId |-> NULL, messages |-> <<>>, isLoading |-> FALSE, isLoadingMessages |-> FALSE,
     loads |-> [t \in Threads |-> 0], sub |-> NoSubmission,
     db |-> [t \in Threads |-> <<>>], titles |-> [t \in Threads |-> NULL],
     selects |-> 0, submits |-> 0]

HIdle == chat = IdleChat

\* lines 61-67: the effect of a render with a new threadId
Selected(c, t) ==
    IF t # NULL
    THEN [c EXCEPT !.threadId = t, !.isLoadingMessages = TRUE, !.loads[t] = @ + 1]
    ELSE [c EXCEPT !.threadId = t, !.messages = <<>>]

\* the component is mounted without a thread or with one
HInit ==
    \E tb \in ChatTables, t \in Threads \cup {NULL} :
        chat = Selected([IdleChat EXCEPT !.db = tb], t)

\* the parent passes another threadId, and the effect of lines 61-67 runs
ChatSelect ==
    /\ chat.selects < MaxSelects
    /\ \E t \in (Threads \cup {NULL}) \ {chat.threadId} :
         chat' = Selected([chat EXCEPT !.selects = @ + 1], t)
    /\ UNCHANGED <<wvars, bvars, ivars, svars, uvars, evars, cvars, gvars>>

\* lines 77-88: the select of a loadMessages call for thread t answers with
\* the rows of the thread
ChatLoadOk ==
    /\ \E t \in Threads :
         /\ chat.loads[t] > 0
         /\ chat' = [chat EXCEPT !.loads[t] = @ - 1, !.messages = chat.db[t],
                                 !.isLoadingMessages = FALSE]
    /\ UNCHANGED <<wvars, bvars, ivars, svars, uvars, evars, cvars, gvars>>

\* lines 83-84 and 88: the select answers with an error
ChatLoadError ==
    /\ \E t \in Threads :
         /\ chat.loads[t] > 0
         /\ chat' = [chat EXCEPT !.loads[t] = @ - 1, !.isLoadingMessages = FALSE]
    /\ UNCHANGED <<wvars, bvars, ivars, svars, uvars, evars, cvars, gvars>>

\* lines 101-115: the form is submitted; blank input, no thread or a
\* submission in flight leave everything as it is
ChatSubmit ==
    /\ chat.submits < MaxSubmits
    /\ \E len \in InputLengths :
         /\ len # 0 /\ chat.threadId # NULL /\ ~chat.isLoading
         /\ LET temp == <<"temp", chat.submits + 1>>
            IN  chat' = [chat EXCEPT
                    !.submits = @ + 1, !.isLoading = TRUE,
                    !.messages = Append(@, ChatMsg(chat.threadId, "user", temp)),
                    !.sub = [pc |-> "insert", thread |-> chat.threadId, len |-> len,
                             temp |-> temp, first |-> Len(chat.messages) = 0]]
    /\ UNCHANGED <<wvars, bvars, ivars, svars, uvars, evars, cvars, gvars>>

\* lines 134-141: the insert of the user's message returns the saved row,
\* which takes the place of the temporary message; the thread is titled if
\* the list was empty when the form was submitted
ChatInsertOk ==
    /\ chat.sub.pc = "insert"
    /\ LET t == chat.sub.thread
           saved == ChatRow(t, "user", Len(chat.db[t]) + 1)
       IN  chat' = [chat EXCEPT
               !.db[t] = Append(@, saved),
               !.messages = [x \in 1..Len(@) |->
                                IF @[x].id = chat.sub.temp THEN saved ELSE @[x]],
               !.titles[t] = IF chat.sub.first THEN TitleOf(chat.sub.len) ELSE @,
               !.sub.pc = "fetch"]
    /\ UNCHANGED <<wvars, bvars, ivars, svars, uvars, evars, cvars, gvars>>

\* lines 159-174: the catch removes the temporary message and appends the
\* error notice, and the finally clears isLoading
ChatFailed(c) ==
    [c EXCEPT
        !.messages = Append(SelectSeq(@, LAMBDA m : m.id # c.sub.temp),
                            ChatMsg(c.sub.thread, "error", <<"error", c.submits>>)),
        !.isLoading = FALSE, !.sub = NoSubmission]

\* line 132: the insert answers with an error
ChatInsertError ==
    /\ chat.sub.pc = "insert"
    /\ chat' = ChatFailed(chat)
    /\ UNCHANGED <<wvars, bvars, ivars, svars, uvars, evars, cvars, gvars>>

\* lines 143-158 and 174: the route saved the assistant's message and
\* returns it, and it is appended to the list
ChatFetchOk ==
    /\ chat.sub.pc = "fetch"
    /\ LET t == chat.sub.thread
           reply == ChatRow(t, "assistant", Len(chat.db[t]) + 1)
       IN  chat' = [chat EXCEPT
               !.db[t] = Append(@, reply),
               !.messages = Append(@, reply),
               !.isLoading = FALSE, !.sub = NoSubmission]
    /\ UNCHANGED <<wvars, bvars, ivars, svars, uvars, evars, cvars, gvars>>

\* lines 143-156: fetch raises or the response is not ok
ChatFetchError ==
    /\ chat.sub.pc = "fetch"
    /\ chat' = ChatFailed(chat)
    /\ UNCHANGED <<wvars, bvars, ivars, svars, uvars, evars, cvars, gvars>>

(***************************************************************************)
(* Specifications: one per component, the others at rest                   *)
(***************************************************************************)
InitWindow == WInit /\ BIdle /\ IIdle /\ SIdle /\ UIdle /\ EIdle /\ CIdle /\ GIdle /\ HIdle

NextWindow == WindowStep \/ WindowFinish

SpecWindow == InitWindow /\ [][NextWindow]_vars

InitBatch == BInit /\ WIdle /\ IIdle /\ SIdle /\ UIdle /\ EIdle /\ CIdle /\ GIdle /\ HIdle

NextBatch == BatchOk \/ BatchFail

SpecBatch == InitBatch /\ [][NextBatch]_vars

InitIngest == IInit /\ WIdle /\ BIdle /\ SIdle /\ UIdle /\ EIdle /\ CIdle /\ GIdle /\ HIdle

NextIngest ==
    \E r \in RunIds :
        \/ StartRun(r)
        \/ UpsertOk(r)
        \/ UpsertError(r)
        \/ SelectOk(r)
        \/ SelectError(r)
        \/ EmbedOk(r)
        \/ EmbedFail(r)
        \/ WriteOk(r)
        \/ WriteError(r)

SpecIngest == InitIngest /\ [][NextIngest]_vars

\* an execution is of runs of upsertChunksAndEmbed, or of one call of
\* generateEmbeddingsBatch with more texts than a group holds
InitPairing ==
    /\ IInit /\ BInit
    /\ WIdle /\ SIdle /\ UIdle /\ EIdle /\ CIdle /\ GIdle /\ HIdle

\* a run begins in an execution without a stand-alone call
PairingStartRun(r) ==
    /\ bat = BatStart(<<>>)
    /\ StartRun(r)

NextPairing ==
    \/ BatchOk
    \/ BatchFail
    \/ \E r \in RunIds :
        \/ PairingStartRun(r)
        \/ UpsertOk(r)
        \/ UpsertError(r)
        \/ SelectOk(r)
        \/ SelectError(r)
        \/ EmbedOk(r)
        \/ EmbedFail(r)
        \/ WriteOk(r)
        \/ WriteError(r)

SpecPairing == InitPairing /\ [][NextPairing]_vars

\* one run when every call of the store and of the provider succeeds; a run
\* that awaits a call goes on when the call returns
NextIngestOk ==
    \/ StartRun(1)
    \/ UpsertOk(1)
    \/ SelectOk(1)
    \/ EmbedOk(1)
    \/ WriteOk(1)

Phase2Step(r) == SelectOk(r) \/ EmbedOk(r) \/ WriteOk(r)

\* a table that earlier runs left, with and without embeddings
InitIngestLive ==
    /\ store \in Tables(<<cC, cD, cE>>)
    /\ run = [r \in RunIds |-> IdleRun]
    /\ WIdle /\ BIdle /\ SIdle /\ UIdle /\ EIdle /\ CIdle /\ GIdle /\ HIdle

SpecIngestLive ==
    InitIngestLive /\ [][NextIngestOk]_vars /\ WF_vars(Phase2Step(1))

\* a call of getUserCorpusCoverage(u1) while a call of upsertChunksAndEmbed
\* for the same owner runs: each read is answered from the table as it is
\* when the read is served
InitInterleaved ==
    /\ IInit
    /\ cov = [IdleCoverage EXCEPT !.pc = "client"]
    /\ WIdle /\ BIdle /\ SIdle /\ UIdle /\ EIdle /\ GIdle /\ HIdle

NextInterleaved ==
    \/ CovClient
    \/ CovReadOk
    \/ CovReadError
    \/ CovReadRaises
    \/ StartRun(1)
    \/ UpsertOk(1)
    \/ UpsertError(1)
    \/ SelectOk(1)
    \/ SelectError(1)
    \/ EmbedOk(1)
    \/ EmbedFail(1)
    \/ WriteOk(1)
    \/ WriteError(1)

SpecInterleaved == InitInterleaved /\ [][NextInterleaved]_vars

InitChat == HInit /\ WIdle /\ BIdle /\ IIdle /\ SIdle /\ UIdle /\ EIdle /\ CIdle /\ GIdle

NextChat ==
    \/ ChatSelect
    \/ ChatLoadOk
    \/ ChatLoadError
    \/ ChatSubmit
    \/ ChatInsertOk
    \/ ChatInsertError
    \/ ChatFetchOk
    \/ ChatFetchError

SpecChat == InitChat /\ [][NextChat]_vars

InitUpload == UInit /\ WIdle /\ BIdle /\ SIdle /\ EIdle /\ CIdle /\ GIdle /\ HIdle

NextUpload ==
    \/ UpNoKey
    \/ UpFormData
    \/ UpAuth
    \/ UpParse
    \/ UpDbTestOk
    \/ UpDbTestError
    \/ UpIngestStart
    \/ UpsertOk(1)
    \/ UpsertError(1)
    \/ SelectOk(1)
    \/ SelectError(1)
    \/ EmbedOk(1)
    \/ EmbedFail(1)
    \/ WriteOk(1)
    \/ WriteError(1)
    \/ UpIngestDone
    \/ UpIngestFailed

SpecUpload == InitUpload /\ [][NextUpload]_vars

InitNormalize == NInit /\ WIdle /\ BIdle /\ SIdle /\ EIdle /\ CIdle /\ GIdle /\ HIdle

NextNormalize == UpParse

SpecNormalize == InitNormalize /\ [][NextNormalize]_vars

InitEntry == EInit /\ WIdle /\ BIdle /\ IIdle /\ SIdle /\ UIdle /\ CIdle /\ GIdle /\ HIdle

NextEntry ==
    \/ EntClient
    \/ ChkClient
    \/ ChkProbeMessageId
    \/ ChkProbeTopicId
    \/ ChkProbeContent
    \/ EntInsertHistory
    \/ EntGenerateEmbedding
    \/ EntInsertEmbedding

SpecEntry == InitEntry /\ [][NextEntry]_vars

InitCoverage == CInit /\ WIdle /\ BIdle /\ SIdle /\ UIdle /\ EIdle /\ GIdle /\ HIdle

NextCoverage == CovClient \/ CovReadOk \/ CovReadError \/ CovReadRaises

SpecCoverage == InitCoverage /\ [][NextCoverage]_vars

InitGen == GInit /\ WIdle /\ BIdle /\ IIdle /\ SIdle /\ UIdle /\ EIdle /\ CIdle /\ HIdle

NextGen == GenCreateOk \/ GenCreateFails \/ GenCreateEmpty

SpecGen == InitGen /\ [][NextGen]_vars

\* a call of either function of the client
InitEmbed ==
    /\ (BInit /\ GIdle) \/ (GInit /\ BIdle)
    /\ WIdle /\ IIdle /\ SIdle /\ UIdle /\ EIdle /\ CIdle /\ HIdle

NextEmbed == BatchOk \/ BatchFail \/ GenCreateOk \/ GenCreateFails \/ GenCreateEmpty

SpecEmbed == InitEmbed /\ [][NextEmbed]_vars

InitSearch == SInit /\ WIdle /\ BIdle /\ UIdle /\ EIdle /\ CIdle /\ GIdle /\ HIdle

NextSearch == SearchEmbedOk \/ SearchEmbedFail \/ SearchRpcOk \/ SearchRpcError

SpecSearch == InitSearch /\ [][NextSearch]_vars

InitLegacy == LInit /\ WIdle /\ BIdle /\ UIdle /\ CIdle /\ GIdle /\ HIdle

NextLegacy == LegacyEmbedOk \/ LegacyEmbedFail \/ LegacyRpcOk \/ LegacyRpcError

SpecLegacy == InitLegacy /\ [][NextLegacy]_vars

(***************************************************************************)
(* Windowing claims                                                        *)
(***************************************************************************)

\* the retained (non-empty, non-trivial) messages, in input order
Retained == SelectSeq(wMsgs, LAMBDA m : m.content # <<>> /\ ~isTrivial(m.content))

RECURSIVE CountBefore(_)
CountBefore(k) == IF k <= 1 THEN 0 ELSE CountBefore(k - 1) + chunks[k - 1].count

\* the last message folded into chunk k
LastMsg(k) == Retained[CountBefore(k) + chunks[k].count]

\* length of the accumulator when the last message of chunk k was appended
LenBeforeLast(k) ==
    IF chunks[k].count = 1 THEN 0
    ELSE Len(chunks[k].content) - Len(Line(LastMsg(k))) - 1

\* C1 as stated: a chunk longer than maxChars carries exactly one message,
\* whose own line is longer than maxChars
C1_Original ==
    wpc = "done" =>
        \A k \in 1..Len(chunks) :
            Len(chunks[k].content) > wParams.max =>
                /\ chunks[k].count = 1
                /\ Len(Line(LastMsg(k))) > wParams.max

\* C1 amended: a chunk is longer than maxChars only if its last message was
\* appended to an accumulator that was empty or shorter than minChars; a
\* chunk of one message that was started right after a flush begins with the
\* separator, and is one character longer than the message's line
C1_MaxCharsUnlessBelowMin ==
    wpc = "done" =>
        \A k \in 1..Len(chunks) :
            Len(chunks[k].content) > wParams.max =>
                \/ chunks[k].count = 1 /\ Len(Line(LastMsg(k))) > wParams.max
                \/ /\ chunks[k].count = 1
                   /\ Len(Line(LastMsg(k))) = wParams.max
                   /\ chunks[k].content = <<10>> \o Line(LastMsg(k))
                   /\ k > 1
                \/ chunks[k].count > 1 /\ LenBeforeLast(k) < wParams.min

C1_Witness ==
    /\ wpc = "done"
    /\ \E k \in 1..Len(chunks) :
          /\ Len(chunks[k].content) > wParams.max
          /\ chunks[k].count > 1
          /\ LenBeforeLast(k) < wParams.min

RECURSIVE JoinLines(_)
\* the lines of the messages ms, separated by "\n"
JoinLines(ms) ==
    IF Len(ms) = 0 THEN <<>>
    ELSE IF Len(ms) = 1 THEN Line(ms[1])
    ELSE Line(ms[1]) \o <<10>> \o JoinLines(Tail(ms))

\* the messages that chunk k counts: the next chunks[k].count retained ones
ChunkMsgs(k) == SubSeq(Retained, CountBefore(k) + 1, CountBefore(k) + chunks[k].count)

\* the retained messages among the first n of the input
RetainedUpTo(n) ==
    SelectSeq(SubSeq(wMsgs, 1, n), LAMBDA m : m.content # <<>> /\ ~isTrivial(m.content))

\* C12: the counts of the chunks add up to the number of non-empty,
\* non-trivial input messages (during the loop: those consumed so far, less
\* the ones still in the accumulator), and the content of each chunk is made
\* of the lines of exactly the messages it counts (after a flush made
\* before appending, the content begins with the separator)
C12_CountsAddUp ==
    /\ wpc = "loop" =>
          CountBefore(Len(chunks) + 1) + current.count = Len(RetainedUpTo(wPos))
    /\ wpc = "done" =>
          /\ CountBefore(Len(chunks) + 1) = Len(Retained)
          /\ \A k \in 1..Len(chunks) :
               /\ chunks[k].count >= 1
               /\ chunks[k].content \in
                    {JoinLines(ChunkMsgs(k)), <<10>> \o JoinLines(ChunkMsgs(k))}

\* a run that dropped a message and folded two others into one chunk
C12_Witness ==
    /\ wpc = "done"
    /\ Len(Retained) < Len(wMsgs)
    /\ Len(Retained) >= 2
    /\ \E k \in 1..Len(chunks) : chunks[k].count = 2

\* the input is one retained message whose line has between minChars and
\* targetChars characters
SingleSized ==
    /\ Len(wMsgs) = 1
    /\ Len(Retained) = 1
    /\ Len(Line(wMsgs[1])) >= wParams.min
    /\ Len(Line(wMsgs[1])) <= wParams.target

\* C13: for such an input the result is one chunk, whose content is that
\* line, whose count is 1, and whose window and participants are the
\* message's
C13_SingleMessageOneChunk ==
    (wpc = "done" /\ SingleSized) =>
        /\ Len(chunks) = 1
        /\ chunks[1].content = Line(wMsgs[1])
        /\ chunks[1].count = 1
        /\ chunks[1].start = wMsgs[1].timestamp
        /\ chunks[1].end = wMsgs[1].timestamp
        /\ chunks[1].participants = <<wMsgs[1].participant>>

\* the line has exactly targetChars characters: the chunk is pushed inside
\* the loop and the pushCurrent after the loop finds nothing
C13_Witness ==
    /\ wpc = "done"
    /\ SingleSized
    /\ Len(Line(wMsgs[1])) = wParams.target
    /\ Len(chunks) = 1

RECURSIVE SplitLines(_)
\* the lines of a content, split at "\n"
SplitLines(str) ==
    IF \E x \in 1..Len(str) : str[x] = 10
    THEN LET x == CHOOSE y \in 1..Len(str) : str[y] = 10 /\ \A z \in 1..(y - 1) : str[z] # 10
         IN  <<SubSeq(str, 1, x - 1)>> \o SplitLines(SubSeq(str, x + 1, Len(str)))
    ELSE <<str>>

\* the lines of all chunks
AllChunkLines == UNION {Range(SplitLines(chunks[k].content)) : k \in 1..Len(chunks)}

\* the acknowledgements: ok, k, lol, haha, thx, thanks, and the signs
\* U+1F44D (thumbs up) and U+1F44C (OK hand)
Acknowledgements ==
    { <<111, 107>>, <<107>>, <<108, 111, 108>>, <<104, 97, 104, 97>>,
      <<116, 104, 120>>, <<116, 104, 97, 110, 107, 115>>,
      <<55357, 56397>>, <<55357, 56396>> }

\* C14 as stated: the line of a message is in no chunk exactly when its
\* content is empty, shorter than 2 after trimming, or, trimmed and without
\* regard to case, one of the acknowledgements
C14_TrivialFilter ==
    wpc = "done" =>
        \A x \in 1..Len(wMsgs) :
            Line(wMsgs[x]) \notin AllChunkLines <=>
                \/ wMsgs[x].content = <<>>
                \/ Len(Trim(wMsgs[x].content)) < 2
                \/ LowerStr(Trim(wMsgs[x].content)) \in Acknowledgements

(***************************************************************************)
(* Batch embedding claims                                                  *)
(***************************************************************************)
\* number of groups of batchSize that n texts make
Groups(n) == (n + batchSize - 1) \div batchSize

\* C6: a call that returns has made one successful submission per group of
\* 64 and returns one vector per input text, vector k being the embedding of
\* (the truncated) text k, however many attempts failed on the way; while
\* running it holds exactly the vectors of the groups completed
C6_BatchOrderPreserved ==
    /\ bat.pc = "returned" =>
          /\ bat.okGroups = Groups(Len(bat.texts))
          /\ Len(bat.embeddings) = Len(bat.texts)
    /\ bat.okGroups = bat.i \div batchSize
    /\ Len(bat.embeddings) = Min2(bat.i, Len(bat.texts))
    /\ \A k \in 1..Len(bat.embeddings) : bat.embeddings[k] = Emb(Truncate(bat.texts[k]))

C6_Witness ==
    /\ bat.pc = "returned"
    /\ Len(bat.texts) = 130
    /\ bat.okGroups = 3
    /\ bat.calls = 5
    /\ Len(bat.last) = 2

\* C7: a group is submitted at most 6 times; each failed attempt a is
\* followed by a wait of 1000 * 2^a ms plus less than 250 ms; the call throws
\* only after 6 failed submissions of one group, what it throws is the error
\* of the sixth, and the last request the provider saw is that group's (no
\* later group is submitted)
C7_RetryBudget ==
    /\ bat.subs <= MaxAttempts
    /\ bat.attempt = bat.subs
    /\ bat.lastErr.kind # "none" =>
          /\ bat.lastErr.group = bat.i
          /\ bat.lastErr.attempt = bat.subs - 1
          /\ bat.delay - 1000 * Pow2(bat.lastErr.attempt) \in 0..249
          /\ bat.last = BatSlice(bat)
    /\ bat.pc = "thrown" =>
          /\ bat.subs = MaxAttempts
          /\ bat.lastErr.kind \in ErrKinds
          /\ bat.lastErr.attempt = MaxAttempts - 1
          /\ bat.calls >= bat.okGroups + MaxAttempts
    /\ bat.pc # "thrown" => bat.subs < MaxAttempts

C7_Witness ==
    /\ bat.pc = "thrown"
    /\ bat.i = batchSize
    /\ Len(bat.texts) > 2 * batchSize
    /\ bat.delay >= 32000

\* C8 as stated: once the provider has refused a submission for quota or
\* billing, the call has thrown: the group is not submitted again
C8_TerminalNotRetried ==
    bat.lastErr.kind = "quota" => bat.pc = "thrown"

(***************************************************************************)
(* Ingestion claims                                                        *)
(***************************************************************************)
Done(r) == run[r].pc = "done"

PageIds(rn) == {rn.page[x].id : x \in 1..Len(rn.page)}

\* every hash of the run's chunk list was stored when the run began
AllStoredAtStart(rn) ==
    \A x \in 1..Len(rn.rows) : HashIds(rn.snap, ChunkHash(rn.rows[x])) # {}

\* C2 as stated: a second complete run over the same list for the same owner
\* reports as inserted only the rows it created, that is none
C2_RerunInsertsNothing ==
    \A r \in RunIds :
        (Done(r) /\ run[r].rerun) => run[r].inserted = run[r].created /\ run[r].inserted = 0

\* C3: a run that repeats a completed run of the same owner over the same
\* list selects no page, makes no provider call, writes no embedding, reports
\* embedded = 0, and every embedding stored when it began is still the same
C3_RerunEmbedsNothing ==
    \A r \in RunIds :
        run[r].rerun =>
            /\ run[r].pages = 0
            /\ run[r].bat.calls = 0
            /\ run[r].written = {}
            /\ run[r].embedded = 0
            /\ Len(store) = Len(run[r].snap)
            /\ \A id \in 1..Len(store) :
                 /\ store[id].embedding = run[r].snap[id].embedding
                 /\ store[id].user_id = run[r].owner => store[id].embedding # NULL

C3_Witness ==
    /\ Done(2)
    /\ run[2].rerun
    /\ Len(run[2].rows) = 4
    /\ run[2].i >= 4
    /\ run[1].pages = 2

RowKey(row) ==
    <<row.id, row.user_id, row.content, row.participants, row.start_time, row.end_time>>

\* C4 as stated: hashes are unique in the table, a hash conflict is never an
\* error, and a run whose hashes were all stored leaves the stored rows as
\* they were
C4_UpsertIsNoOp ==
    /\ \A a, b \in 1..Len(store) : store[a].chunk_hash = store[b].chunk_hash => a = b
    /\ \A r \in RunIds : run[r].err # "conflict"
    /\ \A r \in RunIds :
         (run[r].alone /\ run[r].pc # "idle" /\ AllStoredAtStart(run[r])) =>
             /\ Len(store) = Len(run[r].snap)
             /\ \A id \in 1..Len(store) : RowKey(store[id]) = RowKey(run[r].snap[id])

\* the same without the in-batch case, to show the second way C4 fails
C4_StoredRowsUnchanged ==
    \A r \in RunIds :
        (run[r].alone /\ run[r].pc # "idle" /\ AllStoredAtStart(run[r])) =>
            /\ Len(store) = Len(run[r].snap)
            /\ \A id \in 1..Len(store) : RowKey(store[id]) = RowKey(run[r].snap[id])

OwnsChunk(userId, c) ==
    \E id \in 1..Len(store) :
        /\ store[id].user_id = userId
        /\ store[id].content = c.content
        /\ store[id].participants = c.participants
        /\ store[id].start_time = c.start
        /\ store[id].end_time = c.end

\* C5 as stated: no run fails because another owner stored the same chunk,
\* and after two owners have each completed a run over the same chunks, each
\* owner has its own stored chunk
C5_EachOwnerKeepsItsChunk ==
    /\ \A r \in RunIds : run[r].err # "rls"
    /\ (/\ Done(1) /\ Done(2)
        /\ run[1].owner # run[2].owner
        /\ run[1].rows = run[2].rows) =>
           \A r \in RunIds : \A x \in 1..Len(run[r].rows) : OwnsChunk(run[r].owner, run[r].rows[x])

\* the second half alone: the row is taken over when the update is let through
C5_BothOwnersStored ==
    (/\ Done(1) /\ Done(2)
     /\ run[1].owner # run[2].owner
     /\ run[1].rows = run[2].rows) =>
        \A r \in RunIds : \A x \in 1..Len(run[r].rows) : OwnsChunk(run[r].owner, run[r].rows[x])

\* C15 as stated: two chunks of a run's list with the same participants and
\* time window and different contents have different hashes (and equal
\* chunks have equal hashes)
C15_HashSensitiveToContent ==
    \A r \in RunIds : \A x, y \in 1..Len(run[r].rows) :
        LET a == run[r].rows[x]
            b == run[r].rows[y]
        IN  /\ a = b => ChunkHash(a) = ChunkHash(b)
            /\ (/\ a.participants = b.participants
                /\ a.start = b.start
                /\ a.end = b.end
                /\ a.content # b.content) => ChunkHash(a) # ChunkHash(b)

ProviderFailed(rn) == rn.pc = "failed" /\ rn.err \in ErrKinds

\* C9 as stated: when the retry budget of a page is used up, the owner's rows
\* outside that page are still embedded by the run
C9_OtherPagesStillEmbedded ==
    \A r \in RunIds :
        (ProviderFailed(run[r]) /\ run[r].alone) =>
            Missing(store, run[r].owner) \subseteq PageIds(run[r])

\* C9 amended: using up the retry budget fails the whole run with the last
\* error of the provider; no row of that page is written and the run selects
\* no further page; what earlier pages wrote stays in the store, and the rows
\* still without embedding are left for a later run
C9_BudgetExhaustedFailsRun ==
    \A r \in RunIds :
        /\ run[r].bat.pc = "thrown" =>
             /\ ProviderFailed(run[r])
             /\ run[r].err = run[r].bat.lastErr.kind
             /\ run[r].bat.subs = MaxAttempts
        /\ ProviderFailed(run[r]) =>
             /\ run[r].bat.pc = "thrown"
             /\ PageIds(run[r]) \cap run[r].written = {}
             /\ run[r].embedded = Cardinality(run[r].written)
             /\ \A id \in run[r].written : store[id].embedding # NULL
             /\ run[r].alone =>
                  \A id \in PageIds(run[r]) : store[id].embedding = NULL

C9_Witness ==
    /\ ProviderFailed(run[1])
    /\ run[1].alone
    /\ run[1].pages = 2
    /\ Cardinality(run[1].written) = 3
    /\ Missing(store, "u1") # {}
    /\ run[2].pc = "idle"

\* run 1 failed and run 2, for the same owner, began afterwards
Resumed ==
    /\ run[1].pc = "failed"
    /\ run[2].pc # "idle"
    /\ run[2].alone
    /\ run[2].owner = run[1].owner

\* C16: when a run has failed, at whatever point, and a later run for the
\* same owner completes, no row of the owner is left without embedding, the
\* later run wrote only rows that are new or had none when it began, and
\* what the failed run wrote is still there
C16_ResumeAfterFailure ==
    Resumed =>
        /\ \A id \in run[2].written :
             id <= Len(run[2].snap) => run[2].snap[id].embedding = NULL
        /\ run[2].written \cap run[1].written = {}
        /\ \A id \in run[1].written : store[id].embedding = run[2].snap[id].embedding
        /\ Done(2) =>
             /\ Missing(store, run[2].owner) = {}
             /\ run[2].embedded = Cardinality(run[2].written)

\* the first run failed between two write-backs of a page of three, leaving
\* rows with and rows without embedding; the second run finished the work
C16_Witness ==
    /\ Resumed
    /\ Done(2)
    /\ run[1].err = "store"
    /\ Len(run[1].page) = 3
    /\ Cardinality(run[1].written) = 1
    /\ Cardinality(run[2].written) >= 2

InPhase2(rn) == rn.pc \in {"select", "embed", "write"}

\* C17: when every call succeeds, a run in its second phase reaches its end;
\* with no other run at work the owner's rows without embedding never grow
\* in number, each pass of the loop takes a non-empty page and leaves none
\* of its rows without embedding, and the loop is left exactly when the
\* select finds no such row
C17_Phase2Terminates ==
    /\ \A r \in RunIds : InPhase2(run[r]) ~> Done(r)
    /\ [][\A r \in RunIds :
            (InPhase2(run[r]) /\ run'[r].alone) =>
                Missing(store', run[r].owner) \subseteq Missing(store, run[r].owner)]_vars
    /\ [][\A r \in RunIds :
            (run[r].pc = "write" /\ run'[r].pc = "select" /\ run'[r].alone) =>
                /\ run[r].page # <<>>
                /\ Cardinality(PageIds(run[r])) = Len(run[r].page)
                /\ PageIds(run[r]) \cap Missing(store', run[r].owner) = {}]_vars
    /\ [][\A r \in RunIds :
            (run[r].pc = "select" /\ run'[r].pc # "select") =>
                (run'[r].pc = "done" <=> Missing(store, run[r].owner) = {})]_vars

\* a run alone went twice through the loop and left it on the third select
C17_Witness ==
    /\ Done(1)
    /\ run[1].alone
    /\ run[1].pages = 2
    /\ run[1].embedded = 4
    /\ Missing(store, "u1") = {}

(***************************************************************************)
(* Search claims                                                           *)
(***************************************************************************)
\* C10: a search that returns gives at most final_k rows, each with a
\* similarity above the threshold and at most 1, in order of non-increasing
\* similarity
C10_SearchBounded ==
    srch.pc = "done" =>
        /\ Len(srch.result) <= srch.params.final_k
        /\ \A x \in 1..Len(srch.result) :
             /\ srch.result[x].similarity > srch.params.threshold
             /\ srch.result[x].similarity <= 1000
        /\ \A x, y \in 1..Len(srch.result) :
             x < y => srch.result[x].similarity >= srch.result[y].similarity

\* the limit binds, the threshold drops an embedded row of the lexical set,
\* and the rows returned differ in similarity
C10_Witness ==
    /\ srch.pc = "done"
    /\ Len(srch.result) = srch.params.final_k
    /\ Len(srch.result) = 2
    /\ srch.result[1].similarity > srch.result[2].similarity
    /\ \E id \in srch.lexical :
         /\ store[id].embedding # NULL
         /\ Similarity(store[id].embedding, srch.embed) <= srch.params.threshold
    /\ \E id \in srch.lexical :
         /\ store[id].embedding # NULL
         /\ id \in srch.probed
         /\ \A x \in 1..Len(srch.result) : srch.result[x].chunk_id # id

\* C11 as stated: every returned chunk is the caller's, and the lexical
\* candidates are drawn from the caller's chunks only
C11_OwnerCorpusOnly ==
    srch.pc = "done" =>
        /\ \A x \in 1..Len(srch.result) : store[srch.result[x].chunk_id].user_id = srch.userId
        /\ \A id \in srch.lexical : store[id].user_id = srch.userId

\* C11, amended: under the definition of part_001 the search is confined to
\* the caller's chunks; under the definition of part_002 target_user_id is
\* not read, and the lexical candidates are the lexical_limit highest ranked
\* rows of the whole table
C11_OwnerCorpusOnlyWhenScoped ==
    srch.pc = "done" =>
        /\ srch.scoped =>
             /\ \A x \in 1..Len(srch.result) : store[srch.result[x].chunk_id].user_id = srch.userId
             /\ \A id \in srch.lexical : store[id].user_id = srch.userId
        /\ ~srch.scoped =>
             /\ Cardinality(srch.lexical) = Min2(srch.params.lexical_limit, Len(store))
             /\ \A u \in Owners :
                  srch.lexical \in LexicalSets(store, srch.query, srch.params.lexical_limit, u, FALSE)

\* a global search returns another owner's chunk while a chunk of the caller
\* that is near enough to the query was left out of the lexical candidates
C11_Witness ==
    /\ srch.pc = "done"
    /\ ~srch.scoped
    /\ \E x \in 1..Len(srch.result) : store[srch.result[x].chunk_id].user_id # srch.userId
    /\ \E id \in 1..Len(store) :
         /\ store[id].user_id = srch.userId
         /\ id \notin srch.lexical
         /\ store[id].embedding # NULL
         /\ PassesThreshold(Similarity(store[id].embedding, srch.embed), srch.params.threshold)

(***************************************************************************)
(* Claims about the upload handler                                         *)
(***************************************************************************)
\* the file of the request is read: the key is configured, the form has a
\* file and the session has a user
ContentRead(rq) == rq.key /\ rq.form = "file" /\ rq.auth = "user"

\* the content is not JSON text
Unparseable(rq) == ~rq.parses

\* the content is JSON text from which no message is extracted, or on which
\* the extraction raises
NoMessages(rq) ==
    /\ rq.parses
    /\ LET data == stripAnnotations(rq.doc)
       IN  ExtractThrows(data) \/ Len(extractMessagesFromJSON(data)) = 0

\* C18: a request whose content is not parseable JSON, or yields no message,
\* never reaches the database test, the windowing or upsertChunksAndEmbed: the
\* table stays as it was, no run of the ingestion begins (so no statement is
\* sent to the store and the embedding provider is not called), and the
\* response is a rejection: 400 "Invalid JSON file", 400 "No messages found
\* in the file", or 500 when the extraction raises
C18_RejectsBeforeAnyWrite ==
    (Unparseable(up.req) \/ NoMessages(up.req)) =>
        /\ up.pc \in {"key", "auth", "parse", "responded"}
        /\ store = up.store0
        /\ run[1] = IdleRun
        /\ up.pc = "responded" =>
             /\ up.status \in {400, 401, 500}
             /\ ContentRead(up.req) =>
                  \/ /\ Unparseable(up.req)
                     /\ up.status = 400 /\ up.error = "Invalid JSON file"
                  \/ /\ NoMessages(up.req) /\ ~ExtractThrows(stripAnnotations(up.req.doc))
                     /\ up.status = 400 /\ up.error = "No messages found in the file"
                  \/ /\ NoMessages(up.req) /\ ExtractThrows(stripAnnotations(up.req.doc))
                     /\ up.status = 500 /\ up.error = "Failed to process chat history"

\* a document whose messages array has entries, none of them with text, is
\* rejected with 400 while the table holds a row that has no embedding yet
C18_Witness ==
    /\ up.pc = "responded"
    /\ up.status = 400 /\ up.error = "No messages found in the file"
    /\ Len(Extracted(stripAnnotations(up.req.doc))) > 0
    /\ \E id \in 1..Len(store) : store[id].embedding = NULL
    /\ store = up.store0

(***************************************************************************)
(* Claims about embedChatHistoryEntry and checkForDuplicateMessage         *)
(***************************************************************************)
\* the row embedChatHistoryEntry inserts for its arguments
EntryRow == HistRow(ent.userId, ent.content, ent.mid, ent.tid)

\* C19: embedChatHistoryEntry never raises, and whatever the store, the
\* provider and the duplicate check do, its value is one of: the id of the
\* new chat_history row, with that row and one chat_embeddings row for it
\* inserted; null, when the duplicate check answered true, with both tables
\* as they were and generateEmbedding not called; or an object with a message
\* and, as details, the error that was raised
C19_NeverRaises ==
    ent.mode = "embed" =>
        /\ ent.pc # "raised"
        /\ ent.pc # "done" => ent.result = NoResult
        /\ ent.pc = "done" =>
             \/ /\ ent.result.t = "id"
                /\ ent.dup = FALSE
                /\ ent.hist = Append(ent.hist0, EntryRow)
                /\ ent.result.v = Len(ent.hist)
                /\ ent.embs = <<[chat_history_id |-> ent.result.v,
                                 embedding |-> <<"vec", ent.content>>]>>
             \/ /\ ent.result.t = "null"
                /\ ent.dup = TRUE
                /\ ent.hist = ent.hist0
                /\ ent.embs = <<>>
                /\ ent.provCalls = 0
             \/ /\ ent.result.t = "error"
                /\ ent.result.details \in ErrPool
                /\ ent.result.message \in {"fetch failed", "Unknown error"}
                /\ ent.embs = <<>>

\* every attempt of generateEmbedding fails after the chat_history row was
\* inserted: the call ends with the error object
C19_Witness ==
    /\ ent.mode = "embed"
    /\ ent.pc = "done"
    /\ ent.result.t = "error"
    /\ ent.hist = Append(ent.hist0, EntryRow)
    /\ ent.provCalls = maxRetries + 1

\* the rows of the caller's that a tier of the match names
OwnRows == {id \in 1..Len(ent.hist0) : ent.hist0[id].user_id = ent.userId}

SameMessageId == {id \in OwnRows : ent.mid # NULL /\ ent.hist0[id].message_id = ent.mid}

SameTopicId == {id \in OwnRows : ent.tid # NULL /\ ent.hist0[id].topic_id = ent.tid}

SameContent == {id \in OwnRows : ent.hist0[id].message_content = ent.content}

\* a call of checkForDuplicateMessage has returned and no probe failed
Checked == ent.mode = "check" /\ ent.pc = "done" /\ ~ent.probeFailed

\* C20 as stated: the value is true exactly when a row of the owner has the
\* message identifier supplied, or the topic identifier supplied, or the
\* same content; in particular it is true whenever a row of the owner has
\* the same content
C20_ThreeTierMatch ==
    Checked =>
        /\ ent.result.v <=> (SameMessageId # {} \/ SameTopicId # {} \/ SameContent # {})
        /\ SameContent # {} => ent.result.v

\* the "in particular" of C20 alone
C20_ContentAlwaysMatches ==
    (Checked /\ SameContent # {}) => ent.result.v

\* what the probes compute.  Every probe carries the content filter of line
\* 127, so a row matches only with the same content; when the filters add
\* up on the one builder, a supplied message identifier (or, without one, a
\* supplied topic identifier) has to match as well
C20_WhatTheProbesMatch ==
    Checked =>
        /\ ent.result.v => SameContent # {}
        /\ ~ent.accum => (ent.result.v <=> SameContent # {})
        /\ ent.accum =>
             (ent.result.v <=>
                IF ent.mid # NULL THEN SameContent \cap SameMessageId # {}
                ELSE IF ent.tid # NULL THEN SameContent \cap SameTopicId # {}
                ELSE SameContent # {})

(***************************************************************************)
(* Claims about the corpus coverage                                        *)
(***************************************************************************)
\* the non-null start and end times of the user's chunks
OwnTimes == TimesOf(store, cov.userId, "start_time") \cup TimesOf(store, cov.userId, "end_time")

OwnChunks == {x \in 1..Len(store) : store[x].user_id = cov.userId}

\* the coverage of the table
TrueCoverage ==
    [earliest |-> formatChatDate(FirstOf(OwnTimes, TRUE)),
     latest |-> formatChatDate(FirstOf(OwnTimes, FALSE)),
     totalChunks |-> Cardinality(OwnChunks)]

\* C21: the value of getUserCorpusCoverage(userId) has, as earliest and
\* latest, the formatted minimum and maximum of the non-null start and end
\* times of the user's chunks ("Unknown date" when there is none), and as
\* totalChunks the number of the user's chunks
C21_CoverageIsExact ==
    cov.pc = "done" => cov.result = TrueCoverage

\* the same when each of the five reads answered with its rows
C21_ExactWhenReadsAnswer ==
    (cov.pc = "done" /\ ~cov.failed) => cov.result = TrueCoverage

\* only end times are stored, all reads answer, and earliest is the
\* formatted least end time
C21_Witness ==
    /\ cov.pc = "done" /\ ~cov.failed
    /\ TimesOf(store, cov.userId, "start_time") = {}
    /\ Cardinality(TimesOf(store, cov.userId, "end_time")) = 2
    /\ cov.result.earliest = formatChatDate(T1)
    /\ cov.result.latest = formatChatDate(T3)
    /\ cov.result.totalChunks > 2

(***************************************************************************)
(* Claims about generateEmbedding                                          *)
(***************************************************************************)
\* the error the request raised
Raised == gen.caught[1]

Indicates(kinds) == Raised.isError /\ Raised.includes \cap kinds # {}

\* C22: a call of generateEmbedding whose request fails throws exactly one
\* of four errors, chosen in this order: rate limit (message with
\* "rate_limit" or "429"), quota ("quota" or "billing"), network ("fetch
\* failed" or "network"), else the generic one; and the request is sent once,
\* whether the call returns or throws
C22_ClassifiedByPriority ==
    /\ gen.pc \in {"returned", "thrown"} => Len(gen.sent) = 1
    /\ gen.pc = "returned" => gen.thrown = "none"
    /\ gen.pc = "thrown" =>
         /\ gen.result = NULL
         /\ gen.thrown \in {RateLimited, QuotaExceeded, NetworkError, EmbeddingFailed}
         /\ gen.thrown = RateLimited <=> Indicates({"rate_limit", "429"})
         /\ gen.thrown = QuotaExceeded <=>
                (~Indicates({"rate_limit", "429"}) /\ Indicates({"quota", "billing"}))
         /\ gen.thrown = NetworkError <=>
                /\ ~Indicates({"rate_limit", "429"}) /\ ~Indicates({"quota", "billing"})
                /\ Indicates({"fetch failed", "network"})

\* an error whose message names both the status 429 and the quota is
\* reported as a rate limit
C22_Witness ==
    /\ gen.pc = "thrown"
    /\ Raised.isError /\ Raised.includes = {"429", "quota", "billing"}
    /\ gen.thrown = RateLimited
    /\ Len(gen.sent) = 1

\* the text of the caller's that a submitted text was made from, on the batch
\* path: the request in bat.last is the group that begins at start
LastStart == IF bat.lastErr.kind = "none" THEN bat.i - batchSize ELSE bat.i

\* t is the first 8000 characters of o, or o when o is not longer
IsPrefixWithinLimit(t, o) ==
    /\ t.id = o.id
    /\ t.len <= MaxEmbedChars
    /\ t.len = Min2(o.len, MaxEmbedChars)

\* C30: every text sent to the provider is the caller's text cut to its
\* first 8000 characters: the one text of generateEmbedding, and every text of
\* every request of generateEmbeddingsBatch, first submission or retry, in
\* the caller's order; and a request of the batch path has at most 64 texts
C30_SubmittedTextsBounded ==
    /\ \A x \in 1..Len(gen.sent) : IsPrefixWithinLimit(gen.sent[x], gen.text)
    /\ bat.calls > 0 =>
         /\ Len(bat.last) \in 1..batchSize
         /\ Len(bat.last) = Min2(batchSize, Len(bat.texts) - LastStart)
         /\ \A x \in 1..Len(bat.last) :
               IsPrefixWithinLimit(bat.last[x], bat.texts[LastStart + x])

\* the sixth submission of the second group of 130 texts, with a text of
\* 16000 characters cut to 8000
C30_Witness ==
    /\ bat.subs = MaxAttempts
    /\ Len(bat.texts) = 130
    /\ bat.i = batchSize
    /\ bat.texts[batchSize + 1].len = 2 * MaxEmbedChars
    /\ bat.last[1].len = MaxEmbedChars

(***************************************************************************)
(* Claims about the order of the phases of a run                           *)
(***************************************************************************)
\* every upsert batch of the run has completed
UpsertsDone(rn) == rn.i >= Len(rn.rows)

\* the run has called the embedding provider or written a vector back
Phase2Begun(rn) ==
    rn.bat.subs > 0 \/ rn.written # {} \/ rn.embedded > 0 \/ rn.pages > 0

\* C27: a run calls the embedding provider and writes vectors back only
\* after every one of its upsert batches has completed, and a run with an
\* upsert batch that failed has failed without a call of the provider
C27_PhasesSequential ==
    \A r \in RunIds :
        /\ Phase2Begun(run[r]) \/ run[r].pc \in {"select", "embed", "write", "done"}
              => UpsertsDone(run[r])
        /\ (run[r].pc # "idle" /\ ~UpsertsDone(run[r]))
              => /\ run[r].pc \in {"upsert", "failed"}
                 /\ run[r].bat.subs = 0 /\ run[r].written = {}

\* a run of two upsert batches that has called the provider and written a
\* vector back, beside a run that failed in its second upsert batch
C27_Witness ==
    /\ Len(run[1].rows) > insertBatchSize /\ UpsertsDone(run[1])
    /\ run[1].bat.subs > 0 /\ run[1].written # {}
    /\ run[2].pc = "failed" /\ run[2].i = insertBatchSize /\ ~UpsertsDone(run[2])


(***************************************************************************)
(* Claims about the retries of embedChatHistoryEntry                       *)
(***************************************************************************)
Operations == {"insert", "embed", "store"}

\* the operation succeeded
Succeeded(op) ==
    CASE op = "insert" -> ent.histId # 0
      [] op = "embed" -> ent.embedding # NULL
      [] OTHER -> ent.result.t = "id"

\* the operation the call is at, or gave up at
StandsAt(op) == ent.calls[op] > 0 /\ ~Succeeded(op)

\* the waits 1000, 2000, 4000, ... in milliseconds
Backoff(n) == [i \in 1..n |-> 1000 * (2 ^ (i - 1))]

\* C28: each of the three operations is attempted at most 4 times, with a
\* wait of 1000ms * 2^attempt after each failed attempt but the fourth; an
\* operation is attempted only after the one before it succeeded; and the
\* call gives up at an operation only when that operation itself was
\* attempted 4 times, whatever the operations before it used
C28_OwnRetryBudget ==
    /\ \A op \in Operations :
          /\ ent.calls[op] <= 4
          /\ ent.waits[op] = Backoff(Len(ent.waits[op]))
          /\ Len(ent.waits[op]) =
                IF Succeeded(op) \/ ent.calls[op] = 4 THEN ent.calls[op] - 1
                ELSE ent.calls[op]
          /\ (StandsAt(op) /\ ent.result.t = "error") => ent.calls[op] = 4
    /\ ent.calls.embed > 0 => Succeeded("insert")
    /\ ent.calls.store > 0 => Succeeded("embed")

\* the insert succeeded at its fourth attempt, the embedding at its fourth,
\* and the insert of the embedding failed four times, with three waits each
C28_Witness ==
    /\ ent.calls = [insert |-> 4, embed |-> 4, store |-> 4]
    /\ \A op \in Operations : ent.waits[op] = <<1000, 2000, 4000>>
    /\ Succeeded("insert") /\ Succeeded("embed")
    /\ ent.pc = "done" /\ ent.result.t = "error"


(***************************************************************************)
(* Claims about the duplicate probe                                        *)
(***************************************************************************)
\* the check has returned
CheckReturned ==
    \/ ent.pc \in {"insert", "embed", "store"}
    \/ ent.pc = "done" /\ (ent.mode = "check" \/ ent.result.t = "null" \/ ent.calls.insert > 0)

\* a row of the user with the content of the message was in the table
ContentStored ==
    \E id \in 1..Len(ent.hist0) :
        ent.hist0[id].user_id = ent.userId /\ ent.hist0[id].message_content = ent.content

\* C29: a probe of checkForDuplicateMessage that fails does not make the
\* check raise, and the check reports a duplicate only for a row that a
\* probe found; when the last probe fails the check returns false, and
\* embedChatHistoryEntry goes on to insert the record
C29_ProbeBestEffort ==
    /\ ent.result.t # "raised"
    /\ (CheckReturned /\ ent.dup) => ContentStored
    /\ ent.finalFailed =>
          /\ CheckReturned /\ ~ent.dup
          /\ ent.mode = "check" => ent.result = [t |-> "bool", v |-> FALSE]
          /\ ent.mode = "embed" =>
                /\ ent.result.t # "null"
                /\ ent.pc = "insert" \/ ent.calls.insert > 0

\* the table holds the message, the probe with the message identifier
\* failed and the last probe failed: the record is inserted a second time
C29_Witness ==
    /\ ent.mode = "embed" /\ ent.mid # NULL
    /\ ContentStored
    /\ ent.finalFailed
    /\ Len(ent.hist) = Len(ent.hist0) + 1
    /\ ent.result.t = "id"


(***************************************************************************)
(* Claims about the store failures of a run                                *)
(***************************************************************************)
\* what the store answers when it refuses a statement
StoreErrors == {"conflict", "rls", "store", "type"}

\* C31: a run that met a store error, in an upsert batch, in the select of
\* a page or in the update of a row, has failed with that error: it has
\* not returned counts and has not gone on to another row, and a run that
\* returned its counts met no error
C31_StoreErrorFailsRun ==
    \A r \in RunIds :
        /\ run[r].err \in StoreErrors => run[r].pc = "failed"
        /\ run[r].pc = "done" => run[r].err = "none"
        /\ run[r].pc = "failed" => run[r].err # "none"

\* one run failed at the update of the second row of a page, after it wrote
\* the first; the other failed at the select of its page
C31_Witness ==
    /\ run[1].pc = "failed" /\ run[1].err = "store"
    /\ Cardinality(run[1].written) = 1 /\ Len(run[1].page) > 1
    /\ run[2].pc = "failed" /\ run[2].err = "store"
    /\ UpsertsDone(run[2]) /\ run[2].pages = 0 /\ run[2].inserted > 0


(***************************************************************************)
(* Claims about the pairing of rows and vectors                            *)
(***************************************************************************)
\* the vector of a text: of its first 8000 characters
VectorOf(id, len) == <<"vec", id, IF len > 8000 THEN 8000 ELSE len>>

\* the rows of the page of a run that the run has written
WrittenOfPage(rn) == {x \in 1..Len(rn.page) : rn.page[x].id \in rn.written}

\* the run r updates a row in this step
Writes(r) ==
    /\ run[r].pc = "write" /\ run'[r].pc # "failed"
    /\ <<run'[r].pc, run'[r].wi, run'[r].k>> # <<run[r].pc, run[r].wi, run[r].k>>

\* C32: an update of phase 2 writes, to the next row of the page that the
\* run has not written yet and to no other, the vector of the content the
\* page read for that row; when the page is left every row of it has been
\* written; and a call of generateEmbeddingsBatch returns, for every j, the
\* vector of text j, whatever the number of groups
C32_RowGetsItsVector ==
    [][ /\ \A r \in RunIds :
             Writes(r) =>
                LET rn == run[r]
                    j == Cardinality(WrittenOfPage(rn)) + 1
                    id == rn.page[j].id
                IN  /\ id \notin rn.written
                    /\ run'[r].written = rn.written \cup {id}
                    /\ store'[id].embedding = VectorOf(rn.page[j].content, Len(rn.page[j].content))
                    /\ \A x \in 1..Len(store) : x # id => store'[x] = store[x]
                    /\ run'[r].pc # "write" => Cardinality(WrittenOfPage(run'[r])) = Len(rn.page)
        /\ bat'.pc = "returned" =>
              /\ Len(bat'.embeddings) = Len(bat'.texts)
              /\ \A j \in 1..Len(bat'.texts) :
                    bat'.embeddings[j] = VectorOf(bat'.texts[j].id, bat'.texts[j].len)
      ]_vars

\* a page of three rows, written in a group of two and a group of one
C32_Witness ==
    /\ Len(run[1].page) = 3 /\ Len(run[1].page) > updateBatchSize
    /\ Cardinality(WrittenOfPage(run[1])) = 3
    /\ \A x \in 1..3 :
         store[run[1].page[x].id].embedding
            = VectorOf(run[1].page[x].content, Len(run[1].page[x].content))


(***************************************************************************)
(* Claims about the window and the participants of a chunk                 *)
(***************************************************************************)
\* a sequence without a repeated item
NoRepeat(sq) == \A a, b \in 1..Len(sq) : a # b => sq[a] # sq[b]

\* C33: the start of a chunk is the timestamp of the first message folded
\* into it and its end the timestamp of the last (none when that message
\* has none), and its participants and emails are those of the messages
\* folded into it, each once, and no others
C33_WindowOfOwnMessages ==
    wpc = "done" =>
        \A k \in 1..Len(chunks) :
            LET ms == ChunkMsgs(k)
            IN  /\ Len(ms) >= 1
                /\ chunks[k].start = ms[1].timestamp
                /\ chunks[k].end = ms[Len(ms)].timestamp
                /\ Range(chunks[k].participants) = {ms[x].participant : x \in 1..Len(ms)}
                /\ Range(chunks[k].participantEmails)
                     = {ms[x].email : x \in {y \in 1..Len(ms) : ms[y].email # <<>>}}
                /\ NoRepeat(chunks[k].participants)
                /\ NoRepeat(chunks[k].participantEmails)

\* a chunk of two messages that begins with a message without a timestamp,
\* after a chunk of another participant with an email that was flushed
\* before the append
C33_Witness ==
    /\ wpc = "done"
    /\ Len(chunks) = 2
    /\ chunks[1].participantEmails # <<>> /\ chunks[1].end # NULL
    /\ chunks[2].count = 2 /\ chunks[2].content[1] = 10
    /\ chunks[2].start = NULL /\ chunks[2].end # NULL
    /\ chunks[2].participantEmails = <<>>
    /\ chunks[2].participants # chunks[1].participants


(***************************************************************************)
(* Claims about the lengths of the chunks and of the accumulator           *)
(***************************************************************************)
Ordered(p) == p.min <= p.target /\ p.target <= p.max

\* every chunk but the last of the result has at least minChars characters
\* (every chunk pushed inside the loop has), and an iteration of the loop
\* begins with fewer than targetChars characters in the accumulator
LengthsKept ==
    /\ wpc = "loop" =>
          /\ \A k \in 1..Len(chunks) : Len(chunks[k].content) >= wParams.min
          /\ wPos < Len(wMsgs) => Len(current.content) < wParams.target
    /\ wpc = "done" =>
          \A k \in 1..(Len(chunks) - 1) : Len(chunks[k].content) >= wParams.min

\* C34 as stated: the lengths are kept whenever minChars <= targetChars <=
\* maxChars
C34_LengthsKept == Ordered(wParams) => LengthsKept

\* C34 amended: the lengths are kept whenever minChars <= targetChars <=
\* maxChars and targetChars is at least 1
C34_LengthsKeptPositiveTarget == (Ordered(wParams) /\ wParams.target >= 1) => LengthsKept

\* a result of a chunk of at least minChars and fewer than targetChars
\* characters, flushed before an append, and a last chunk of fewer than
\* minChars
C34_Witness ==
    /\ wpc = "done"
    /\ Ordered(wParams) /\ wParams.target >= 1
    /\ Len(chunks) = 3
    /\ Len(chunks[1].content) >= wParams.min
    /\ Len(chunks[1].content) < wParams.target
    /\ Len(chunks[3].content) < wParams.min

(***************************************************************************)
(* Claims about the text of the chunks                                     *)
(***************************************************************************)
\* C35 as stated: the contents of the chunks, in output order, joined by
\* newlines are the lines of the retained messages, in input order, joined
\* by newlines, and every chunk has a content and counts a message
C35_NothingLostOrReordered ==
    wpc = "done" =>
        /\ Join([k \in 1..Len(chunks) |-> chunks[k].content], <<10>>) = JoinLines(Retained)
        /\ \A k \in 1..Len(chunks) : chunks[k].content # <<>> /\ chunks[k].count >= 1

\* the same when no chunk was flushed before an append: no content begins
\* with a newline
C35_NothingLostWithoutEarlyFlush ==
    (wpc = "done" /\ \A k \in 1..Len(chunks) : chunks[k].content[1] # 10) =>
        /\ Join([k \in 1..Len(chunks) |-> chunks[k].content], <<10>>) = JoinLines(Retained)
        /\ \A k \in 1..Len(chunks) : chunks[k].content # <<>> /\ chunks[k].count >= 1


(***************************************************************************)
(* Claims about the hybrid search and its reference computation            *)
(***************************************************************************)
\* the rows the lexical stage ranks: the caller's under the definition of
\* part_001, all under the definition of part_002
Ranking == {id \in 1..Len(store) : srch.scoped => store[id].user_id = srch.userId}

\* L is a choice of the lexical_limit rows of highest text rank
TopByRank(L) ==
    /\ L \subseteq Ranking
    /\ Cardinality(L) = IF srch.params.lexical_limit < Cardinality(Ranking)
                        THEN srch.params.lexical_limit ELSE Cardinality(Ranking)
    /\ \A a \in L, b \in Ranking \ L :
         TsRank(store[a].content, srch.query) >= TsRank(store[b].content, srch.query)

\* the similarity of a stored row to the query of the call
SimTo(id) == Similarity(store[id].embedding, srch.embed)

\* the rows of L with an embedding and a similarity above the threshold
Kept(L) == {id \in L : store[id].embedding # NULL /\ SimTo(id) > srch.params.threshold}

\* the result is the final_k most similar rows of K, the most similar first
TopOf(K) ==
    /\ Len(srch.result) = IF srch.params.final_k < Cardinality(K)
                          THEN srch.params.final_k ELSE Cardinality(K)
    /\ \A x \in 1..Len(srch.result) :
         /\ srch.result[x].chunk_id \in K
         /\ srch.result[x].similarity = SimTo(srch.result[x].chunk_id)
         /\ srch.result[x].content = store[srch.result[x].chunk_id].content
         /\ \A c \in K \ {srch.result[y].chunk_id : y \in 1..Len(srch.result)} :
              srch.result[x].similarity >= SimTo(c)
    /\ \A x, y \in 1..Len(srch.result) :
         x < y => /\ srch.result[x].chunk_id # srch.result[y].chunk_id
                  /\ srch.result[x].similarity >= srch.result[y].similarity

InsertedByCall == (Len(ent.hist0) + 1)..Len(ent.hist)

\* the chat_history row id has a chat_embeddings row
HasEmbedding(id) == \E x \in 1..Len(ent.embs) : ent.embs[x].chat_history_id = id

\* a call of checkForDuplicateMessage for the same message finds the row id
\* by one of its probes
FoundAsDuplicate(id) ==
    /\ ent.hist[id].user_id = ent.userId
    /\ ent.hist[id].message_content = ent.content
    /\ ent.hist[id].message_id = ent.mid
    /\ ent.hist[id].topic_id = ent.tid

\* C37: after embedChatHistoryEntry returns with any outcome, every
\* chat_history row it inserted has a chat_embeddings row, so that no row a
\* later call would take for a duplicate is without its embedding
C37_InsertedRowHasEmbedding ==
    (ent.mode = "embed" /\ ent.pc = "done") =>
        \A id \in InsertedByCall : FoundAsDuplicate(id) => HasEmbedding(id)

(***************************************************************************)
(* Claims about a coverage read while an ingest run writes                 *)
(***************************************************************************)
\* the least and the greatest of the times the reads returned
EarliestRead == pickMin(Candidates2(cov.res["es"], cov.res["ee"]))
LatestRead == pickMax(Candidates2(cov.res["le"], cov.res["ls"]))

\* every one of the five reads answered with its rows
AllAnswered == cov.pc = "done" /\ ~cov.failed

\* C38: the coverage returned while an ingest run for the same owner
\* interleaves with the five reads is that of one state of the table: a
\* total of 0 comes with the "Unknown date" sentinel as earliest and as
\* latest, and earliest is not later than latest
C38_CoverageOfOneState ==
    AllAnswered =>
        /\ cov.result = CoverageOf(cov.res)
        /\ cov.result.totalChunks = 0 => (EarliestRead = NULL /\ LatestRead = NULL)
        /\ (EarliestRead # NULL /\ LatestRead # NULL) =>
              cov.result.earliest[2] <= cov.result.latest[2]

(***************************************************************************)
(* Claims about the chat view                                              *)
(***************************************************************************)
\* the list the view shows, lines 187-220: none without a thread or while
\* messages are loading
Displayed ==
    IF chat.threadId = NULL \/ chat.isLoadingMessages THEN <<>> ELSE chat.messages

\* no submission is in flight
SubmissionEnded == chat.sub.pc = "none"

\* C39: under every interleaving of thread selection, message loading and
\* message submission the displayed list holds only messages of the selected
\* thread, the reply and the error notice of a submission made in another
\* thread included, and the loading flag of a submission is cleared when the
\* submission ends
C39_OnlyCurrentThread ==
    /\ \A x \in 1..Len(Displayed) : Displayed[x].thread = chat.threadId
    /\ SubmissionEnded => ~chat.isLoading

\* the list when no load is in flight
C39_OnlyCurrentThreadAtRest ==
    (\A t \in Threads : chat.loads[t] = 0) =>
        \A x \in 1..Len(Displayed) : Displayed[x].thread = chat.threadId

\* the loading flag is set exactly while a submission is in flight
C39_LoadingFlagCleared == SubmissionEnded <=> ~chat.isLoading

(***************************************************************************)
(* Claims about the legacy search                                          *)
(***************************************************************************)
\* the row of chat_embeddings behind a returned row
EmbOf(row) == CHOOSE a \in 1..Len(ent.embs) : ent.embs[a].chat_history_id = row.id

\* the similarity of a row of chat_embeddings to the query of the call
SimOf(a) == Similarity(ent.embs[a].embedding, srch.embed)

\* at most match_count rows, each above the threshold, the nearest first
LegacyBounded ==
    /\ Len(srch.result) <= srch.params.match_count
    /\ \A x \in 1..Len(srch.result) : srch.result[x].similarity > srch.params.threshold
    /\ \A x, y \in 1..Len(srch.result) :
          x < y => srch.result[x].similarity >= srch.result[y].similarity

\* C25 as stated: the rows returned are at most match_count, above the
\* threshold, owned by the target user, in non-increasing order of
\* similarity, and each among the greatest(match_count * 10, 50) nearest
\* rows of the table
C25_LegacySearch ==
    srch.pc = "done" =>
        /\ LegacyBounded
        /\ \A x \in 1..Len(srch.result) :
              /\ ent.hist[srch.result[x].id].user_id = srch.userId
              /\ Cardinality({b \in 1..Len(ent.embs) : SimOf(b) > srch.result[x].similarity})
                    < CandidateLimit(srch.params.match_count)

\* C25 as the two definitions have it: the rows returned are at most
\* match_count, above the threshold and in non-increasing order of
\* similarity; they are rows of the candidates, which are at most
\* greatest(match_count * 10, 50) rows, the nearest of the rows the plan
\* reads; and they are the target user's under the definition of part_001
C25_LegacySearchFromCandidates ==
    srch.pc = "done" =>
        /\ LegacyBounded
        /\ Cardinality(srch.lexical) <= CandidateLimit(srch.params.match_count)
        /\ \A a \in srch.lexical, b \in srch.probed \ srch.lexical : SimOf(a) >= SimOf(b)
        /\ \A x \in 1..Len(srch.result) :
              /\ EmbOf(srch.result[x]) \in srch.lexical
              /\ srch.scoped => ent.hist[srch.result[x].id].user_id = srch.userId

\* under the definition of part_001 the candidates are as many as the limit
\* allows, a row is returned, and a nearer row of another user and a row of
\* the target user that the limit left out are not
C25_Witness ==
    /\ srch.pc = "done" /\ srch.scoped
    /\ Len(srch.result) = 1
    /\ Cardinality(srch.lexical) = CandidateLimit(srch.params.match_count)
    /\ \E a \in srch.lexical :
         /\ ent.hist[ent.embs[a].chat_history_id].user_id # srch.userId
         /\ SimOf(a) > srch.result[1].similarity
    /\ \E b \in srch.probed \ srch.lexical :
         /\ ent.hist[ent.embs[b].chat_history_id].user_id = srch.userId
         /\ SimOf(b) > srch.params.threshold


(***************************************************************************)
(* Claims about the normalizer                                             *)
(***************************************************************************)
\* the timestamp of an extracted message is null or a date
HasDateOrNone(m) ==
    m.created_date.t = "null" \/ (m.created_date.t = "str" /\ m.created_date.v \in ValidDates)

\* C23 as stated: every message extracted from the document has a date or
\* no timestamp, whichever path normalized it, and the ingestion is never
\* refused for a timestamp
C23_UnparseableDateIsNoTimestamp ==
    /\ \A i \in 1..Len(up.messages) : HasDateOrNone(up.messages[i])
    /\ run[1].err # "type"

\* C23 on the structured path: parseChatDate gives a date or null, so the
\* messages of records with creator, text, topic_id and message_id have a
\* date or no timestamp
C23_StructuredPathDegrades ==
    \A i \in 1..Len(up.messages) :
        up.messages[i].creator.email # JStr(<<>>) => HasDateOrNone(up.messages[i])

RECURSIVE HasAnnotations(_)
\* some object of x, at any depth through objects and arrays, has a member
\* named annotations
HasAnnotations(x) ==
    \/ x.t = "arr" /\ \E i \in 1..Len(x.v) : HasAnnotations(x.v[i])
    \/ x.t = "obj" /\ \E i \in 1..Len(x.f) : x.f[i][1] = "annotations" \/ HasAnnotations(x.f[i][2])

\* the positions of the members of an object that are not named annotations
OtherMembers(x) == {i \in 1..Len(x.f) : x.f[i][1] # "annotations"}

\* the number of the members before member i that are not named annotations
Before(x, i) == Cardinality({j \in OtherMembers(x) : j < i})

RECURSIVE SameButAnnotations(_, _)
\* y is x with nothing changed but annotations members: the same kind of
\* value, the same scalar, the same items in the same places, the same other
\* members in the same order, each the same but for annotations members
SameButAnnotations(x, y) ==
    IF x.t = "arr"
    THEN /\ y.t = "arr" /\ Len(y.v) = Len(x.v)
         /\ \A i \in 1..Len(x.v) : SameButAnnotations(x.v[i], y.v[i])
    ELSE IF x.t = "obj"
    THEN /\ y.t = "obj" /\ Len(y.f) = Cardinality(OtherMembers(x))
         /\ \A i \in OtherMembers(x) :
               /\ y.f[Before(x, i) + 1][1] = x.f[i][1]
               /\ SameButAnnotations(x.f[i][2], y.f[Before(x, i) + 1][2])
    ELSE y = x

\* stripAnnotations has run on the parsed document of the request (a parsed
\* document is never undefined)
Stripped == up.data # JUndef

\* C24: the document that stripAnnotations leaves has no member named
\* annotations in any object at any depth, through objects and arrays, and
\* is the parsed document in every other member and value
C24_NoAnnotationsLeft ==
    Stripped =>
        /\ ~HasAnnotations(up.data)
        /\ SameButAnnotations(up.req.doc, up.data)

\* a document with an annotations member in an object that is an item of an
\* array inside an object, beside a member that stays
C24_Witness ==
    /\ Stripped
    /\ up.req.doc.t = "obj"
    /\ \E i \in 1..Len(up.req.doc.f) :
         LET a == up.req.doc.f[i][2]
         IN  /\ a.t = "arr" /\ Len(a.v) > 0 /\ a.v[1].t = "obj"
             /\ \E j, k \in 1..Len(a.v[1].f) :
                  a.v[1].f[j][1] = "annotations" /\ a.v[1].f[k][1] = "text"
    /\ up.data # up.req.doc

RECURSIVE Records(_)
\* the objects of a document, at any depth through objects and arrays
Records(x) ==
    CASE x.t = "arr" -> UNION {Records(x.v[i]) : i \in 1..Len(x.v)}
      [] x.t = "obj" -> {x} \cup UNION {Records(x.f[i][2]) : i \in 1..Len(x.f)}
      [] OTHER -> {}

\* a text with a character that is not white space
HasInk(s) == \E i \in 1..Len(s) : s[i] \notin WhiteSpace

\* a record with none of the content fields
Contentless(r) ==
    \A k \in {"content", "message", "text", "body", "msg"} :
        \A i \in 1..Len(r.f) : r.f[i][1] # k

\* C26: every message the normalizer puts out has a text with a character
\* that is not white space, and a record that has neither the structured
\* shape nor any of the fields content, message, text, body and msg gives
\* no message, at whatever place of the document it stands
C26_NoBlankTextNoContentlessMessage ==
    /\ \A i \in 1..Len(up.messages) :
          up.messages[i].text.t = "str" /\ HasInk(up.messages[i].text.v)
    /\ Stripped =>
          /\ \A r \in Records(up.data) : \A index \in 0..1 :
                Contentless(r) => normalizeMessage(r, index) = JNull
          /\ (\A r \in Records(up.data) : Contentless(r)) => up.messages = <<>>

\* a messages array of a record that gives a message, a record without any
\* content field and a structured record with a text of white space only
C26_Witness ==
    /\ Stripped
    /\ Len(up.messages) = 1
    /\ LET items == Get(up.data, "messages")
       IN  /\ items.t = "arr" /\ Len(items.v) = 3
           /\ items.v[1] = JObj(<< <<"text", JStr(SOk)>> >>)
           /\ items.v[2] = JObj(<< <<"log", JStr(SOk)>> >>)
           /\ Structured(items.v[3]) /\ Get(items.v[3], "text") = JStr(SBlank)

====
